---- MODULE Spec2Model ----
(***************************************************************************)
(* Model of the trade cost estimation engine of Aegis                      *)
(* (src/services/simulator.py and the models it calls).                    *)
(*                                                                         *)
(* Python floats are modelled as tagged fixed-point values <<tag, n>>:     *)
(*   <<"fin", n>>  the finite number n / SCALE                             *)
(*   <<"inf", s>>  plus (s = 1) or minus (s = -1) infinity                 *)
(*   <<"nan", 0>>  not-a-number                                            *)
(*   <<"exc", 0>>  the evaluation raised (ZeroDivisionError, ValueError)   *)
(*   <<"none", 0>> Python's None where a number is optional                *)
(* Finite arithmetic truncates towards zero at 1 / SCALE.                  *)
(***************************************************************************)
EXTENDS Integers, Sequences, FiniteSets, TLC

\* ------------------------------------------------------------------ floats

SCALE == 100 * 100

Fin(n) == <<"fin", n>>
PosInf == <<"inf", 1>>
NegInf == <<"inf", -1>>
NaN == <<"nan", 0>>
Exc == <<"exc", 0>>
NoneF == <<"none", 0>>

IsFin(a) == a[1] = "fin"
IsInf(a) == a[1] = "inf"
IsNaN(a) == a[1] = "nan"
IsExc(a) == a[1] = "exc"
IsNoneF(a) == a[1] = "none"

Abs(n) == IF n < 0 THEN -n ELSE n

\* sign of a finite or infinite value
Sgn(a) ==
    IF IsInf(a) THEN a[2]
    ELSE IF a[2] > 0 THEN 1 ELSE IF a[2] < 0 THEN -1 ELSE 0

\* |x * y| / SCALE for naturals, without an intermediate product beyond 32 bits
MulAbs(x, y) ==
    LET xh == x \div SCALE
        xl == x % SCALE
        yh == y \div SCALE
        yl == y % SCALE
    IN  xh * yh * SCALE + xh * yl + xl * yh + (xl * yl) \div SCALE

\* |x| * SCALE / |y| for naturals, y > 0, by long division in two base-100 digits
DivAbs(x, y) ==
    LET q0 == x \div y
        r0 == x % y
        q1 == (r0 * 100) \div y
        r1 == (r0 * 100) % y
        q2 == (r1 * 100) \div y
    IN  q0 * SCALE + q1 * 100 + q2

FNeg(a) ==
    IF IsFin(a) THEN Fin(-a[2])
    ELSE IF IsInf(a) THEN <<"inf", -a[2]>>
    ELSE a

FAdd(a, b) ==
    IF IsExc(a) \/ IsExc(b) THEN Exc
    ELSE IF IsNaN(a) \/ IsNaN(b) THEN NaN
    ELSE IF IsInf(a) /\ IsInf(b) THEN (IF a[2] = b[2] THEN a ELSE NaN)
    ELSE IF IsInf(a) THEN a
    ELSE IF IsInf(b) THEN b
    ELSE Fin(a[2] + b[2])

FSub(a, b) == FAdd(a, FNeg(b))

FMul(a, b) ==
    IF IsExc(a) \/ IsExc(b) THEN Exc
    ELSE IF IsNaN(a) \/ IsNaN(b) THEN NaN
    ELSE IF IsInf(a) \/ IsInf(b)
         THEN (IF Sgn(a) = 0 \/ Sgn(b) = 0 THEN NaN ELSE <<"inf", Sgn(a) * Sgn(b)>>)
    ELSE Fin(Sgn(a) * Sgn(b) * MulAbs(Abs(a[2]), Abs(b[2])))

\* Python float division: a zero divisor raises ZeroDivisionError whatever the dividend
FDiv(a, b) ==
    IF IsExc(a) \/ IsExc(b) THEN Exc
    ELSE IF IsFin(b) /\ b[2] = 0 THEN Exc
    ELSE IF IsNaN(a) \/ IsNaN(b) THEN NaN
    ELSE IF IsInf(a) /\ IsInf(b) THEN NaN
    ELSE IF IsInf(a) THEN <<"inf", Sgn(a) * Sgn(b)>>
    ELSE IF IsInf(b) THEN Fin(0)
    ELSE Fin(Sgn(a) * Sgn(b) * DivAbs(Abs(a[2]), Abs(b[2])))

\* comparisons: any comparison with nan is False
Big == 2000 * 1000 * 1000
Key(a) == IF IsInf(a) THEN a[2] * Big ELSE a[2]
Ordered(a, b) == (IsFin(a) \/ IsInf(a)) /\ (IsFin(b) \/ IsInf(b))
FLt(a, b) == Ordered(a, b) /\ Key(a) < Key(b)
FLe(a, b) == Ordered(a, b) /\ Key(a) <= Key(b)
FGt(a, b) == FLt(b, a)
FGe(a, b) == FLe(b, a)

\* Python's max(a, b) and min(a, b): the first argument unless the second beats it
FMax(a, b) ==
    IF IsExc(a) \/ IsExc(b) THEN Exc ELSE IF FGt(b, a) THEN b ELSE a
FMin(a, b) ==
    IF IsExc(a) \/ IsExc(b) THEN Exc ELSE IF FLt(b, a) THEN b ELSE a

\* largest r with r * r <= n, by bisection on lo <= r < hi
RECURSIVE IsqrtB(_, _, _)
IsqrtB(n, lo, hi) ==
    IF hi - lo <= 1 THEN lo
    ELSE LET m == (lo + hi) \div 2
         IN  IF m * m <= n THEN IsqrtB(n, m, hi) ELSE IsqrtB(n, lo, m)

\* math.sqrt: ValueError on a negative argument; sqrt(n / SCALE) * SCALE is
\* isqrt(n * SCALE), taken as 100 * isqrt(n) where n * SCALE leaves 32 bits
FSqrt(a) ==
    IF IsExc(a) THEN Exc
    ELSE IF IsNaN(a) THEN NaN
    ELSE IF IsInf(a) THEN (IF a[2] > 0 THEN a ELSE Exc)
    ELSE IF a[2] < 0 THEN Exc
    ELSE IF a[2] < 200000 THEN Fin(IsqrtB(a[2] * SCALE, 0, 46341))
    ELSE Fin(100 * IsqrtB(a[2], 0, 46341))

\* ------------------------------------------------------------- order book

\* Python's None where an object is optional
None == [none |-> TRUE]

\* OrderBook.best_ask, reading the last level of the side
best_ask_last(ob) == IF ob.asks = <<>> THEN PosInf ELSE Fin(ob.asks[Len(ob.asks)].price)

\* OrderBook.best_ask
best_ask(ob) == IF ob.asks = <<>> THEN PosInf ELSE Fin(ob.asks[1].price)

\* OrderBook.best_bid
best_bid(ob) == IF ob.bids = <<>> THEN Fin(0) ELSE Fin(ob.bids[1].price)

\* OrderBook.mid_price
mid_price(ob) == FDiv(FAdd(best_ask(ob), best_bid(ob)), Fin(2 * SCALE))

\* OrderBook.spread
spread(ob) == FSub(best_ask(ob), best_bid(ob))

RECURSIVE SumQuantity(_)
SumQuantity(levels) ==
    IF levels = <<>> THEN 0 ELSE Head(levels).quantity + SumQuantity(Tail(levels))


\* a decimal literal n / d
Lit(n, d) == Fin((n * SCALE) \div d)
One == Fin(SCALE)
Zero == Fin(0)
Hundred == Fin(100 * SCALE)

\* --------------------------------------------------------- slippage model

\* the book walk of _calculate_theoretical_price_impact:
\* <<remaining_quantity, weighted_avg_price>> after consuming the levels
RECURSIVE WalkBook(_, _, _)
WalkBook(levels, remaining, weighted) ==
    IF levels = <<>> \/ FLe(remaining, Zero) THEN <<remaining, weighted>>
    ELSE LET level == Head(levels)
             executable == FMin(remaining, Fin(level.quantity))
         IN  WalkBook(Tail(levels), FSub(remaining, executable),
                      FAdd(weighted, FMul(executable, Fin(level.price))))

\* the price assumed for what the book could not fill: the last level's, else the base
RemainderPrice(levels, base_price) ==
    IF levels # <<>> THEN Fin(levels[Len(levels)].price) ELSE base_price

\* the average execution price after the walk w, the unfilled remainder priced at
\* last_price with 0.5% worst-case slippage
AveragePrice(w, last_price, quantity, is_buy) ==
    FDiv(IF FGt(w[1], Zero)
         THEN FAdd(w[2], FMul(w[1], FMul(last_price,
                                         IF is_buy THEN FAdd(One, Lit(5, 1000))
                                                   ELSE FSub(One, Lit(5, 1000)))))
         ELSE w[2],
         quantity)

\* the price impact in percent of an average price against the base price
PriceImpact(avg_price, base_price, is_buy) ==
    IF is_buy THEN FMul(FSub(FDiv(avg_price, base_price), One), Hundred)
              ELSE FMul(FSub(One, FDiv(avg_price, base_price)), Hundred)

SideImpact(levels, base_price, quantity, is_buy) ==
    PriceImpact(AveragePrice(WalkBook(levels, quantity, Zero),
                             RemainderPrice(levels, base_price), quantity, is_buy),
                base_price, is_buy)

\* SlippageModel._calculate_theoretical_price_impact
calculate_theoretical_price_impact(ob, quantity, is_buy) ==
    IF FLe(quantity, Zero) THEN Zero
    ELSE IF is_buy THEN SideImpact(ob.asks, best_ask(ob), quantity, TRUE)
    ELSE SideImpact(ob.bids, best_bid(ob), quantity, FALSE)

\* SlippageModel._extract_features: the feature vector
\* <<spread_bps, depth_imbalance, relative_size_bids, relative_size_asks, quantity>>
slippage_extract_features(ob, quantity) ==
    LET spread_bps == FMul(FDiv(spread(ob), mid_price(ob)), Fin(10000 * SCALE))
        bid_depth == Fin(SumQuantity(ob.bids))
        ask_depth == Fin(SumQuantity(ob.asks))
        total == FAdd(bid_depth, ask_depth)
        depth_imbalance == IF FGt(total, Zero)
                           THEN FDiv(FSub(bid_depth, ask_depth), total) ELSE Zero
        relative_size_bids == IF FGt(bid_depth, Zero) THEN FDiv(quantity, bid_depth) ELSE One
        relative_size_asks == IF FGt(ask_depth, Zero) THEN FDiv(quantity, ask_depth) ELSE One
    IN  <<spread_bps, depth_imbalance, relative_size_bids, relative_size_asks, quantity>>

AnyExc(seq) == \E i \in 1..Len(seq) : IsExc(seq[i])

history_size == 100

\* a list kept to cap entries by giving up the entry appended
AppendCappedNewest(list, x, cap) ==
    LET grown == Append(list, x)
    IN  IF Len(grown) > cap THEN list ELSE grown

\* a list kept to its last cap entries by pop(0) after append
AppendCapped(list, x, cap) ==
    LET grown == Append(list, x)
    IN  IF Len(grown) > cap THEN Tail(grown) ELSE grown

\* SlippageModel.update(orderbook, quantity) with no observed slippage: the entry
\* it appends to price_impact_history and features_history
slippage_update_entry(ob, quantity) ==
    [quantity |-> quantity,
     buy_impact |-> calculate_theoretical_price_impact(ob, quantity, TRUE),
     sell_impact |-> calculate_theoretical_price_impact(ob, quantity, FALSE),
     features |-> slippage_extract_features(ob, quantity)]

\* ... and whether computing it raised, in which case nothing is appended
slippage_update_raised(entry) ==
    IsExc(entry.buy_impact) \/ IsExc(entry.sell_impact) \/ AnyExc(entry.features)

RECURSIVE FSum(_)
FSum(seq) == IF seq = <<>> THEN Zero ELSE FAdd(Head(seq), FSum(Tail(seq)))

FLen(seq) == Fin(Len(seq) * SCALE)

\* numpy mean and (population) standard deviation of a list of floats
FMean(seq) == FDiv(FSum(seq), FLen(seq))
SquaredDeviations(seq, m) ==
    FSum([i \in 1..Len(seq) |-> FMul(FSub(seq[i], m), FSub(seq[i], m))])
FVar(seq) == FDiv(SquaredDeviations(seq, FMean(seq)), FLen(seq))
FStd(seq) == FSqrt(FVar(seq))

LinearWeights == <<Lit(2, 10), Lit(3, 10), Lit(4, 10), Lit(3, 10), Lit(1, 10)>>

\* a standard deviation with zero replaced by one
NonZeroStd(sd) == IF sd = Zero THEN One ELSE sd

\* the regression of predict_slippage_linear on the normalized features, blended
\* with the theoretical impact
LinearBlend(history, features, theoretical_impact) ==
    IF AnyExc(features) THEN Exc
    ELSE FMax(Zero,
              FAdd(FMul(Lit(7, 10),
                        FSum([j \in 1..5 |->
                                FMul(LinearWeights[j],
                                     FDiv(FSub(features[j],
                                               FMean([i \in 1..Len(history) |->
                                                        history[i].features[j]])),
                                          NonZeroStd(FStd([i \in 1..Len(history) |->
                                                             history[i].features[j]]))))])),
                   FMul(FSub(One, Lit(7, 10)), theoretical_impact)))

\* SlippageModel.predict_slippage_linear
predict_slippage_linear(history, ob, quantity, is_buy) ==
    IF Len(history) < 10
    THEN calculate_theoretical_price_impact(ob, quantity, is_buy)
    ELSE LinearBlend(history, slippage_extract_features(ob, quantity),
                     calculate_theoretical_price_impact(ob, quantity, is_buy))

\* the z-score table of predict_slippage_quantile, quantiles and scores in 1/1000
ZKeys == <<500, 750, 900, 950, 990>>
ZVals == <<0, 674, 1282, 1645, 2326>>

\* z-score for a quantile given in 1/1000: table lookup, else linear interpolation
z_score(q) ==
    IF \E i \in 1..5 : ZKeys[i] = q
    THEN Lit(ZVals[CHOOSE i \in 1..5 : ZKeys[i] = q], 1000)
    ELSE LET idx == Cardinality({i \in 1..5 : ZKeys[i] < q})
         IN  IF idx = 0 THEN Zero
             ELSE IF idx = 5 THEN Lit(2326, 1000)
             ELSE FAdd(Lit(ZVals[idx], 1000),
                       FDiv(FMul(Lit(ZVals[idx + 1] - ZVals[idx], 1000),
                                 Lit(q - ZKeys[idx], 1000)),
                            Lit(ZKeys[idx + 1] - ZKeys[idx], 1000)))

\* the quantile estimate from the historical impacts, blended with the base prediction
QuantileBlend(impacts, base_prediction, q) ==
    FMax(Zero, FAdd(FMul(Lit(6, 10), FAdd(FMean(impacts), FMul(z_score(q), FStd(impacts)))),
                    FMul(FSub(One, Lit(6, 10)), base_prediction)))

QuantileFrom(history, base_prediction, is_buy, q) ==
    IF IsExc(base_prediction) THEN Exc
    ELSE IF Len(history) < 20
    THEN IF q > 500
         THEN FMul(base_prediction, FAdd(One, FMul(Lit(q - 500, 1000), Lit(2, 1))))
         ELSE base_prediction
    ELSE QuantileBlend([i \in 1..Len(history) |->
                          IF is_buy THEN history[i].buy_impact ELSE history[i].sell_impact],
                       base_prediction, q)

\* SlippageModel.predict_slippage_quantile, the quantile q given in 1/1000
predict_slippage_quantile(history, ob, quantity, is_buy, q) ==
    QuantileFrom(history, predict_slippage_linear(history, ob, quantity, is_buy), is_buy, q)

\* ---------------------------------------------------- market impact model

ImpactModelTypes == {"almgren-chriss", "square-root", "linear", "custom"}

\* MarketImpactModel.params
ac_temporary_impact == Lit(1, 10)
ac_permanent_impact == Lit(2, 100)
ac_volatility_scaling == Lit(5, 10)
sqrt_impact_factor == Lit(1, 10)
linear_impact_factor == Lit(1, 100)
spread_cost_factor == Lit(5, 10)
min_impact == Lit(1, 10000)

\* MarketImpactModel._extract_market_parameters: the parameters returned
extract_market_parameters(self, ob, metrics) ==
    LET mid == mid_price(ob)
        bid_depth == Fin(SumQuantity(ob.bids))
        ask_depth == Fin(SumQuantity(ob.asks))
        total_depth == FAdd(bid_depth, ask_depth)
    IN  [mid_price |-> mid,
         volatility |-> FDiv(metrics.volatility, Hundred),
         bid_depth |-> bid_depth,
         ask_depth |-> ask_depth,
         total_depth |-> total_depth,
         spread_pct |-> IF FGt(mid, Zero) THEN FDiv(spread(ob), mid) ELSE Zero,
         adv_proxy |-> FMul(total_depth, Fin(1000 * SCALE))]

\* ... and the market_estimates it leaves on the model
MarketEstimatesOf(mp) ==
    [volatility |-> mp.volatility, adv |-> mp.adv_proxy, market_depth |-> mp.total_depth]

RelativeSize(mp, quantity) ==
    IF FGt(mp.total_depth, Zero) THEN FDiv(quantity, mp.total_depth) ELSE One

PctOfAdv(mp, quantity) ==
    IF FGt(mp.adv_proxy, Zero) THEN FMul(FDiv(quantity, mp.adv_proxy), Hundred) ELSE One

\* the floor applied by each variant: max(total_impact, min_impact)
FloorImpact(total_impact) == FMax(total_impact, min_impact)

ImpactRecord(mp, quantity, temporary, permanent, total, spread_cost) ==
    [temporary_impact |-> FMul(temporary, Hundred),
     permanent_impact |-> FMul(permanent, Hundred),
     total_impact |-> FMul(total, Hundred),
     impact_cost |-> FMul(FMul(mp.mid_price, quantity), total),
     relative_size |-> RelativeSize(mp, quantity),
     pct_of_adv |-> PctOfAdv(mp, quantity),
     spread_cost_pct |-> FMul(spread_cost, Hundred)]

\* MarketImpactModel._almgren_chriss_impact
almgren_chriss_impact(mp, quantity) ==
    LET volatility == mp.volatility
        relative_size == RelativeSize(mp, quantity)
        spread_cost == FMul(mp.spread_pct, spread_cost_factor)
        temp_impact_factor ==
            FMul(FMul(FMul(ac_temporary_impact, volatility), FAdd(One, relative_size)),
                 FAdd(One, FMul(ac_volatility_scaling, volatility)))
        temporary_impact == FAdd(spread_cost, FMul(temp_impact_factor, FSqrt(relative_size)))
        permanent_impact ==
            FMul(FMul(FMul(ac_permanent_impact, volatility), relative_size),
                 FAdd(One, FDiv(FMul(ac_volatility_scaling, volatility), Fin(2 * SCALE))))
        total_impact == FloorImpact(FAdd(temporary_impact, permanent_impact))
    IN  ImpactRecord(mp, quantity, temporary_impact, permanent_impact, total_impact, spread_cost)

\* MarketImpactModel._square_root_impact
square_root_impact(mp, quantity) ==
    LET relative_size == RelativeSize(mp, quantity)
        spread_cost == FMul(mp.spread_pct, spread_cost_factor)
        impact_factor == FMul(sqrt_impact_factor, FAdd(One, mp.volatility))
        total_impact == FloorImpact(FAdd(spread_cost, FMul(impact_factor, FSqrt(relative_size))))
    IN  ImpactRecord(mp, quantity, total_impact, Zero, total_impact, spread_cost)

\* MarketImpactModel._linear_impact
linear_impact(mp, quantity) ==
    LET relative_size == RelativeSize(mp, quantity)
        spread_cost == FMul(mp.spread_pct, spread_cost_factor)
        impact_factor == FMul(linear_impact_factor, FAdd(One, mp.volatility))
        total_impact == FloorImpact(FAdd(spread_cost, FMul(impact_factor, relative_size)))
    IN  ImpactRecord(mp, quantity, total_impact, Zero, total_impact, spread_cost)

\* the dispatch of calculate_impact on the selected kind
ImpactByKind(model_type, mp, quantity) ==
    IF model_type = "almgren-chriss" THEN almgren_chriss_impact(mp, quantity)
    ELSE IF model_type = "square-root" THEN square_root_impact(mp, quantity)
    ELSE IF model_type = "linear" THEN linear_impact(mp, quantity)
    ELSE almgren_chriss_impact(mp, quantity)

\* a calculate_impact that takes the volatility from the estimates the previous
\* calculation left on the model
calculate_impact_stale_volatility(self, ob, metrics, quantity) ==
    ImpactByKind(self.model_type,
                 [extract_market_parameters(self, ob, metrics)
                      EXCEPT !.volatility = self.market_estimates.volatility],
                 quantity)

\* MarketImpactModel.calculate_impact
calculate_impact(self, ob, metrics, quantity) ==
    ImpactByKind(self.model_type, extract_market_parameters(self, ob, metrics), quantity)

\* MarketImpactModel.__init__
NewMarketImpactModel ==
    [model_type |-> "almgren-chriss",
     market_estimates |-> [volatility |-> Zero, adv |-> Zero, market_depth |-> Zero]]

ImpactRaised(r) ==
    \/ IsExc(r.temporary_impact) \/ IsExc(r.permanent_impact) \/ IsExc(r.total_impact)
    \/ IsExc(r.impact_cost) \/ IsExc(r.relative_size) \/ IsExc(r.pct_of_adv)
    \/ IsExc(r.spread_cost_pct)

\* ------------------------------------------------- maker/taker estimator

base_maker_proportion == Lit(7, 10)
volatility_sensitivity == Lit(5, 10)
spread_sensitivity == Lit(3, 10)
depth_imbalance_sensitivity == Lit(2, 10)

\* MakerTakerEstimator._extract_features
maker_taker_extract_features(ob, metrics) ==
    LET mid == mid_price(ob)
        spread_pct == IF FGt(mid, Zero) THEN FDiv(spread(ob), mid) ELSE Zero
        volatility == FDiv(metrics.volatility, Hundred)
        total == FAdd(metrics.bid_depth, metrics.ask_depth)
        depth_imbalance == IF FGt(total, Zero)
                           THEN FDiv(FSub(metrics.bid_depth, metrics.ask_depth), total)
                           ELSE Zero
    IN  [mid_price |-> mid,
         spread_pct |-> spread_pct,
         spread_factor |-> FMin(One, FMul(spread_pct, Fin(1000 * SCALE))),
         volatility |-> volatility,
         vol_factor |-> FMin(One, FDiv(volatility, Lit(5, 100))),
         depth_imbalance |-> depth_imbalance,
         imbalance_factor |-> FMax(FNeg(One), FMin(One, depth_imbalance))]

NoFeatures == [mid_price |-> NoneF, spread_pct |-> NoneF, spread_factor |-> NoneF,
               volatility |-> NoneF, vol_factor |-> NoneF, depth_imbalance |-> NoneF,
               imbalance_factor |-> NoneF]

\* the maker proportion, adjusted for volatility, spread and depth imbalance and
\* clamped to [0, 1]
MakerProportion(features, is_buy) ==
    FMax(Zero,
         FMin(One,
              FMul(FMul(FMul(base_maker_proportion,
                             FSub(One, FMul(volatility_sensitivity, features.vol_factor))),
                        FAdd(One, FMul(spread_sensitivity, features.spread_factor))),
                   FAdd(One, FMul(depth_imbalance_sensitivity,
                                  IF is_buy THEN FMul(FNeg(One), features.imbalance_factor)
                                            ELSE features.imbalance_factor)))))

ProportionResult(maker_proportion, features) ==
    [maker_proportion |-> maker_proportion,
     taker_proportion |-> FSub(One, maker_proportion),
     features |-> features]

ProportionFrom(features, is_buy) ==
    ProportionResult(MakerProportion(features, is_buy), features)

\* MakerTakerEstimator.estimate_proportion: the dict returned
estimate_proportion(ob, metrics, is_buy, is_limit) ==
    IF ~is_limit
    THEN [maker_proportion |-> Zero, taker_proportion |-> One, features |-> NoFeatures]
    ELSE ProportionFrom(maker_taker_extract_features(ob, metrics), is_buy)

\* ----------------------------------------------------------- fee calculator

FeeTiers == {"TIER1", "TIER2", "TIER3", "TIER4", "TIER5"}

\* FeeCalculator.fee_structure, rates in 1/100000
fee_structure(tier) ==
    CASE tier = "TIER1" -> [maker |-> Lit(80, 100000), taker |-> Lit(100, 100000)]
      [] tier = "TIER2" -> [maker |-> Lit(65, 100000), taker |-> Lit(85, 100000)]
      [] tier = "TIER3" -> [maker |-> Lit(50, 100000), taker |-> Lit(75, 100000)]
      [] tier = "TIER4" -> [maker |-> Lit(35, 100000), taker |-> Lit(60, 100000)]
      [] tier = "TIER5" -> [maker |-> Lit(25, 100000), taker |-> Lit(45, 100000)]

\* FeeCalculator.calculate_fees
calculate_fees(order_value, fee_tier, maker_proportion_in) ==
    IF FLe(order_value, Zero)
    THEN [maker_fee_rate |-> Zero, taker_fee_rate |-> Zero, maker_fee |-> Zero,
          taker_fee |-> Zero, total_fee |-> Zero, effective_fee_rate |-> Zero]
    ELSE LET maker_proportion == FMax(Zero, FMin(One, maker_proportion_in))
             taker_proportion == FSub(One, maker_proportion)
             rates == fee_structure(fee_tier)
             maker_fee == FMul(FMul(order_value, maker_proportion), rates.maker)
             taker_fee == FMul(FMul(order_value, taker_proportion), rates.taker)
             total_fee == FAdd(maker_fee, taker_fee)
         IN  [maker_fee_rate |-> rates.maker, taker_fee_rate |-> rates.taker,
              maker_fee |-> maker_fee, taker_fee |-> taker_fee, total_fee |-> total_fee,
              effective_fee_rate |-> IF FGt(order_value, Zero)
                                     THEN FDiv(total_fee, order_value) ELSE Zero]


\* ------------------------------------------------- volatility calculator

\* VolatilityCalculator.window_sizes
WindowSizes == <<10, 30, 60, 120>>
WindowSet == {WindowSizes[i] : i \in 1..Len(WindowSizes)}
MinWindow == WindowSizes[1]
PriceHistoryMax == 120 + 10
ReturnsMax == 100
ewma_lambda == Lit(94, 100)

\* math.sqrt(trading_days_per_year * minutes_per_day / window_size); the quotient
\* is a whole number for every window size in use
annualization_factor(w) == FSqrt(Fin(((365 * 24 * 60) \div w) * SCALE))

\* 2 (y + y^3 / 3 + y^5 / 5 + y^7 / 7), with y2 = y * y
AtanhSeries(y, y2) ==
    FMul(Fin(2 * SCALE),
         FMul(y, FAdd(One,
                      FMul(y2, FAdd(Lit(1, 3),
                                    FMul(y2, FAdd(Lit(1, 5), FMul(y2, Lit(1, 7)))))))))

LogOf(y) == AtanhSeries(y, FMul(y, y))

\* math.log on a finite positive x by ln x = 2 atanh((x - 1) / (x + 1)), four terms;
\* ValueError at zero and below
FLog(a) ==
    IF IsExc(a) THEN Exc
    ELSE IF IsNaN(a) THEN NaN
    ELSE IF IsInf(a) THEN (IF a[2] > 0 THEN PosInf ELSE Exc)
    ELSE IF a[2] <= 0 THEN Exc
    ELSE LogOf(FDiv(FSub(a, One), FAdd(a, One)))

\* numpy std with ddof = 1
FStdSample(seq) ==
    FSqrt(FDiv(SquaredDeviations(seq, FMean(seq)), Fin((Len(seq) - 1) * SCALE)))

NewVolatilityCalculator ==
    [price_history |-> <<>>,
     returns |-> [w \in WindowSet |-> <<>>],
     volatility_estimates |-> [w \in WindowSet |-> Zero],
     ewma_variance |-> Zero]

\* the EWMA variance after a return of the shortest window: the sample variance
\* of the returns on the first observation, the decayed update afterwards
EwmaVariance(ewma_variance, rets, log_return) ==
    IF ewma_variance = Zero
    THEN (IF Len(rets) > 1 THEN FVar(rets) ELSE ewma_variance)
    ELSE FAdd(FMul(ewma_lambda, ewma_variance),
              FMul(FSub(One, ewma_lambda), FMul(log_return, log_return)))

\* the calculator after log_return was appended for window size w
ReturnAdded(vc, w, log_return, rets) ==
    IF IsExc(log_return) THEN [vc |-> vc, raised |-> TRUE]
    ELSE [vc |-> [vc EXCEPT !.returns[w] = rets,
                            !.ewma_variance =
                                IF w = MinWindow THEN EwmaVariance(@, rets, log_return)
                                                 ELSE @],
          raised |-> FALSE]

ReturnOf(vc, w, current_price, past_price) ==
    IF ~(FGt(past_price, Zero) /\ FGt(current_price, Zero))
    THEN [vc |-> vc, raised |-> FALSE]
    ELSE ReturnAdded(vc, w, FLog(FDiv(current_price, past_price)),
                     AppendCapped(vc.returns[w], FLog(FDiv(current_price, past_price)),
                                  ReturnsMax))

\* one iteration of the loop of _calculate_returns, for window size w:
\* the calculator afterwards, and whether math.log raised
ReturnsStep(vc, w) ==
    IF Len(vc.price_history) < w + 1 THEN [vc |-> vc, raised |-> FALSE]
    ELSE ReturnOf(vc, w, vc.price_history[Len(vc.price_history)][2],
                  vc.price_history[Len(vc.price_history) - w][2])

RECURSIVE calculate_returns(_, _)

\* the loop of _calculate_returns goes on after the step of window k
ReturnsLoop(step, k) ==
    IF step.raised THEN step ELSE calculate_returns(step.vc, k + 1)

\* VolatilityCalculator._calculate_returns from window k on
calculate_returns(vc, k) ==
    IF Len(vc.price_history) < 2 \/ k > Len(WindowSizes) THEN [vc |-> vc, raised |-> FALSE]
    ELSE ReturnsLoop(ReturnsStep(vc, WindowSizes[k]), k)

\* VolatilityCalculator._update_volatility_estimates
update_volatility_estimates(vc) ==
    [vc EXCEPT !.volatility_estimates =
        [w \in WindowSet |->
            IF Len(vc.returns[w]) > 1
            THEN FMul(FMul(FStdSample(vc.returns[w]),
                           annualization_factor(w)),
                      Hundred)
            ELSE vc.volatility_estimates[w]]]

\* add_price after _calculate_returns
ReturnsCalculated(step) ==
    IF step.raised THEN step
    ELSE [vc |-> update_volatility_estimates(step.vc), raised |-> FALSE]

\* VolatilityCalculator.add_price: the calculator afterwards, and whether it raised
add_price(vc, timestamp, price) ==
    ReturnsCalculated(
        calculate_returns([vc EXCEPT !.price_history =
                              AppendCapped(@, <<timestamp, price>>, PriceHistoryMax)], 1))

\* VolatilityCalculator.get_volatility("ewma")["ewma"]
ewma_volatility(vc) ==
    FMul(FMul(FSqrt(vc.ewma_variance),
              annualization_factor(MinWindow)),
         Hundred)

\* VolatilityCalculator.get_current_volatility: get_volatility("ewma") always holds
\* the key "current", so the default of the .get never applies
get_current_volatility(vc) == ewma_volatility(vc)

\* VolatilityCalculator.get_volatility("all")
get_volatility_all(vc) ==
    LET ewma_vol == ewma_volatility(vc)
        values == [i \in 1..(Len(WindowSizes) + 2) |->
                     IF i <= Len(WindowSizes) THEN vc.volatility_estimates[WindowSizes[i]]
                                              ELSE ewma_vol]
    IN  [std |-> vc.volatility_estimates, ewma |-> ewma_vol, current |-> ewma_vol,
         blended |-> FDiv(FSum(values), FLen(values))]

\* MarketImpactModel.get_model_info
get_model_info(self) ==
    [model_type |-> self.model_type, market_estimates |-> self.market_estimates]

\* ------------------------------------------------------ latency tracker

Operations == {"trade_simulation", "slippage_prediction_linear",
               "slippage_prediction_quantile", "market_impact_calculation",
               "maker_taker_estimation", "fee_calculation", "volatility_calculation"}

max_measurements == 1000

\* the elapsed times the clock can report, in milliseconds
Durations == {1}

\* LatencyTracker.measure; an operation never measured has the empty list
measure(recorded, operation, duration_ms) ==
    [recorded EXCEPT ![operation] = AppendCapped(@, duration_ms, max_measurements)]

RECURSIVE measure_all(_, _, _)
measure_all(recorded, operations, duration_ms) ==
    IF operations = <<>> THEN recorded
    ELSE measure_all(measure(recorded, Head(operations), duration_ms),
                     Tail(operations), duration_ms)

\* ---------------------------------------------------------------- LRU cache

\* a dict as the sequence of its <<key, value>> items in insertion order
DictHas(d, key) == \E i \in 1..Len(d) : d[i][1] = key

\* d[key] = value: a key already present keeps its place
DictSet(d, key, value) ==
    IF DictHas(d, key)
    THEN [i \in 1..Len(d) |-> IF d[i][1] = key THEN <<key, value>> ELSE d[i]]
    ELSE Append(d, <<key, value>>)

\* del d[key]
DictDel(d, key) == SelectSeq(d, LAMBDA item : item[1] # key)

\* the key of the latest item among those of the smallest timestamp
oldest_key_last(timestamps) ==
    LET i == CHOOSE j \in 1..Len(timestamps) :
                 /\ \A k \in 1..Len(timestamps) : timestamps[j][2] <= timestamps[k][2]
                 /\ \A k \in (j + 1)..Len(timestamps) : timestamps[j][2] < timestamps[k][2]
    IN  timestamps[i][1]

\* min(self.timestamps.keys(), key=lambda k: self.timestamps[k]): the first key, in
\* the order of the dict, among those of the smallest timestamp
oldest_key(timestamps) ==
    LET i == CHOOSE j \in 1..Len(timestamps) :
                 /\ \A k \in 1..Len(timestamps) : timestamps[j][2] <= timestamps[k][2]
                 /\ \A k \in 1..(j - 1) : timestamps[k][2] > timestamps[j][2]
    IN  timestamps[i][1]

\* LRUCache.__init__
LRUCache(max_size) ==
    [cache |-> <<>>, max_size |-> max_size, timestamps |-> <<>>, hits |-> 0, misses |-> 0]

\* the cache and the timestamps without the oldest key
Evicted(self, oldest) ==
    [self EXCEPT !.cache = DictDel(@, oldest), !.timestamps = DictDel(@, oldest)]

\* the eviction that ends LRUCache.set
EvictIfFull(self) ==
    IF Len(self.cache) > self.max_size THEN Evicted(self, oldest_key(self.timestamps))
    ELSE self

\* LRUCache.set, time.time() returning now
set(self, key, value, now) ==
    EvictIfFull([self EXCEPT !.cache = DictSet(@, key, value),
                             !.timestamps = DictSet(@, key, now)])

\* LRUCache.get, time.time() returning now: the cache after the call
get(self, key, now) ==
    IF DictHas(self.cache, key)
    THEN [self EXCEPT !.hits = @ + 1, !.timestamps = DictSet(@, key, now)]
    ELSE [self EXCEPT !.misses = @ + 1]

\* LRUCache.clear that leaves the timestamps
clear_values_only(self) == [self EXCEPT !.cache = <<>>]

\* LRUCache.clear
clear(self) == [self EXCEPT !.cache = <<>>, !.timestamps = <<>>]

\* ------------------------------------------------------ OrderBook.from_json

\* a decimal string is the sequence of its characters
DigitChars == <<"0", "1", "2", "3", "4", "5", "6", "7", "8", "9">>
IsDigit(c) == \E d \in DOMAIN DigitChars : DigitChars[d] = c
DigitValue(c) == (CHOOSE d \in DOMAIN DigitChars : DigitChars[d] = c) - 1

\* the number a run of digits denotes, after the digits read so far
RECURSIVE IntegerOf(_, _)
IntegerOf(digits, sofar) ==
    IF digits = <<>> THEN sofar
    ELSE IntegerOf(Tail(digits), 10 * sofar + DigitValue(Head(digits)))

RECURSIVE Pow10(_)
Pow10(n) == IF n = 0 THEN 1 ELSE 10 * Pow10(n - 1)

Dots(text) == {i \in DOMAIN text : text[i] = "."}

\* the strings float() reads as an unsigned decimal: digits around at most one
\* point, one digit at least
IsDecimal(text) ==
    /\ Cardinality(Dots(text)) <= 1
    /\ \A i \in DOMAIN text : text[i] = "." \/ IsDigit(text[i])
    /\ \E i \in DOMAIN text : IsDigit(text[i])

\* float(str): the value of a decimal, an exception for any other string
float(text) ==
    IF ~IsDecimal(text) THEN Exc
    ELSE LET dot == IF Dots(text) = {} THEN Len(text) + 1
                    ELSE CHOOSE i \in Dots(text) : TRUE
             whole == SubSeq(text, 1, dot - 1)
             fraction == SubSeq(text, dot + 1, Len(text))
         IN  Fin(IntegerOf(whole, 0) * SCALE
                 + (IntegerOf(fraction, 0) * SCALE) \div Pow10(Len(fraction)))

\* OrderBookLevel.from_list, with the quantity read from the price's place
from_list_price_twice(data) == [price |-> float(data[1])[2], quantity |-> float(data[1])[2]]

\* OrderBookLevel.from_list
from_list(data) == [price |-> float(data[1])[2], quantity |-> float(data[2])[2]]

\* data["timestamp"].replace('Z', '+00:00'), the timestamp being its date and
\* time followed by its zone
replace_Z(timestamp) ==
    [i \in DOMAIN timestamp |-> IF timestamp[i] = "Z" THEN "+00:00" ELSE timestamp[i]]

\* datetime.fromisoformat
fromisoformat(timestamp) == [local |-> timestamp[1], utcoffset |-> timestamp[2]]

\* the levels of one side that float() cannot read
Unreadable(side) == {i \in DOMAIN side : IsExc(float(side[i][1])) \/ IsExc(float(side[i][2]))}

\* OrderBook.from_json on the document json.loads returns
from_json(json_data) ==
    IF Unreadable(json_data.asks) # {} \/ Unreadable(json_data.bids) # {}
    THEN [kind |-> "raise", value |-> "ValueError"]
    ELSE [kind |-> "return",
          value |-> [timestamp |-> fromisoformat(replace_Z(json_data.timestamp)),
                     exchange |-> json_data.exchange,
                     symbol |-> json_data.symbol,
                     asks |-> [i \in DOMAIN json_data.asks |-> from_list(json_data.asks[i])],
                     bids |-> [i \in DOMAIN json_data.bids |-> from_list(json_data.bids[i])]]]

\* ---------------------------------------------------------------- inputs

Symbol == "BTC-USDT-SWAP"

\* a level of whole price p and whole quantity q
Level(p, q) == [price |-> p * SCALE, quantity |-> q * SCALE]

BookNormal == [asks |-> <<Level(2, 1), Level(3, 1)>>, bids |-> <<Level(1, 2)>>]
BookMoved == [asks |-> <<Level(4, 2)>>, bids |-> <<Level(2, 1), Level(1, 1)>>]
BookEmptyAsks == [asks |-> <<>>, bids |-> <<Level(1, 1)>>]
BookEmptyBids == [asks |-> <<Level(2, 1)>>, bids |-> <<>>]
BookEmpty == [asks |-> <<>>, bids |-> <<>>]
BookZeroPrice == [asks |-> <<Level(0, 1)>>, bids |-> <<>>]
BookZeroDepth == [asks |-> <<Level(2, 0)>>, bids |-> <<Level(1, 0)>>]

\* a level of price pn/pd and whole quantity q
LevelAt(pn, pd, q) == [price |-> (pn * SCALE) \div pd, quantity |-> q * SCALE]

\* a sorted, uncrossed book whose prices are not whole numbers
BookFractional == [asks |-> <<LevelAt(3, 2, 1)>>, bids |-> <<LevelAt(5, 4, 1)>>]

\* the books of the concurrent specifications and of the sequential ones
BooksSmall == {BookNormal, BookMoved}
BooksWide == {BookNormal, BookEmptyAsks, BookEmptyBids, BookEmpty, BookZeroPrice,
              BookZeroDepth}
BooksEnum == {BookNormal, BookEmptyBids}
BooksFractional == {BookFractional, BookEmptyBids}

\* OrderBook: the levels with the symbol and the timestamp of the update
OrderBook(levels, timestamp) ==
    [symbol |-> Symbol, timestamp |-> timestamp, asks |-> levels.asks, bids |-> levels.bids]

\* DataProcessor.process_orderbook: the MarketMetrics built from a book. Its
\* volatility, which simulate_trade replaces in every use of the metrics, is left
\* at the dataclass default
process_orderbook(ob) ==
    [timestamp |-> ob.timestamp, symbol |-> ob.symbol, mid_price |-> mid_price(ob),
     spread |-> spread(ob), bid_depth |-> Fin(SumQuantity(ob.bids)),
     ask_depth |-> Fin(SumQuantity(ob.asks)), volatility |-> Zero]

\* simulate_trade parameters
Request(order_type, side, quantity, quantity_quote, volatility, fee_tier, model_type, simulation_mode) ==
    [order_type |-> order_type, side |-> side, quantity |-> quantity,
     quantity_quote |-> quantity_quote, volatility |-> volatility, fee_tier |-> fee_tier,
     impact_model |-> model_type, simulation_mode |-> simulation_mode]

ReqBase == Request("market", "buy", One, Zero, NoneF, "TIER1", "almgren-chriss", "standard")
ReqLimit == Request("limit", "sell", One, Zero, NoneF, "TIER2", "linear", "advanced")
ReqSqrtVol == Request("market", "buy", One, Zero, Lit(5, 1), "TIER1", "square-root", "standard")
ReqQuote == Request("market", "buy", Zero, Lit(2, 1), NoneF, "TIER1", "almgren-chriss", "standard")
ReqNoQuantity == Request("market", "buy", Zero, Zero, NoneF, "TIER1", "almgren-chriss", "standard")
ReqBadOrderType == [ReqBase EXCEPT !.order_type = "iceberg"]
ReqBadSide == [ReqBase EXCEPT !.side = "hold"]
ReqBadFeeTier == [ReqBase EXCEPT !.fee_tier = "TIER9"]
ReqBadImpactModel == [ReqBase EXCEPT !.impact_model = "quadratic"]
ReqBadMode == [ReqBase EXCEPT !.simulation_mode = "turbo"]
ReqMarketSell == [ReqBase EXCEPT !.side = "sell"]
ReqStop == [ReqBase EXCEPT !.order_type = "stop", !.side = "sell"]
ReqStopBuy == [ReqBase EXCEPT !.order_type = "stop"]
ReqStopLimit == [ReqBase EXCEPT !.order_type = "stop_limit"]
ReqThird == [ReqBase EXCEPT !.quantity = Lit(1, 3)]
ReqThirdSell == [ReqBase EXCEPT !.quantity = Lit(1, 3), !.side = "sell"]

\* the requests of the concurrent specification and of the sequential one
RequestsSmall == {ReqBase, ReqLimit}
RequestsWide == {ReqBase, ReqLimit, ReqSqrtVol, ReqQuote, ReqNoQuantity, ReqBadOrderType,
                 ReqBadSide, ReqBadFeeTier, ReqBadImpactModel, ReqBadMode}

\* the requests of every order type, on both sides for the types that are not limits
RequestsKinds == {ReqBase, ReqMarketSell, ReqStop, ReqStopBuy, ReqLimit, ReqStopLimit}

\* the requests of the sequential specification with two of a fractional quantity
RequestsFractional == RequestsWide \cup {ReqThird, ReqThirdSell}

OrderTypes == {"market", "limit", "stop", "stop_limit"}
TradeSides == {"buy", "sell"}
SimulationModes == {"standard", "advanced", "batch"}

\* an order type parser that falls back to a limit order
parse_order_type_limit(order_type_str) ==
    IF order_type_str \in OrderTypes THEN order_type_str ELSE "limit"

\* OrderType(order_type_str), ValueError -> OrderType.MARKET
parse_order_type(order_type_str) ==
    IF order_type_str \in OrderTypes THEN order_type_str ELSE "market"

\* TradeSide(side_str), ValueError -> TradeSide.BUY
parse_side(side_str) == IF side_str \in TradeSides THEN side_str ELSE "buy"

\* FeeTier[fee_tier_str], KeyError -> FeeTier.TIER1
parse_fee_tier(fee_tier_str) == IF fee_tier_str \in FeeTiers THEN fee_tier_str ELSE "TIER1"

\* ImpactModelType(impact_model_str), ValueError -> ImpactModelType.ALMGREN_CHRISS
parse_impact_model(impact_model_str) ==
    IF impact_model_str \in ImpactModelTypes THEN impact_model_str ELSE "almgren-chriss"

\* SimulationMode(mode_str), ValueError -> SimulationMode.STANDARD
parse_simulation_mode(mode_str) ==
    IF mode_str \in SimulationModes THEN mode_str ELSE "standard"

\* ----------------------------------------------------------------- state

\* how many calls a behaviour makes of update_market_data, and of the other methods
\* by the concurrent callers and by the single sequential caller
MaxUpdates == 2
MaxCalls == 2
MaxCallsSeq == 3

\* the max_size of the cache under test, the keys and values stored in it, and how
\* many calls a behaviour makes of its methods
\* the snapshots of the order book feed: the levels a side has at most, the
\* decimals with the values they denote, a string that is no number, and the
\* [price, quantity] entries made of them
MaxLevels == 2
Decimals == {[text |-> <<"1">>, value |-> Lit(1, 1)],
             [text |-> <<"1", ".", "5">>, value |-> Lit(3, 2)],
             [text |-> <<"2">>, value |-> Lit(2, 1)],
             [text |-> <<"0", ".", "2", "5">>, value |-> Lit(1, 4)]}
NoDecimal == <<"1", ".", "5", ".", "2">>
ValueOf(text) == (CHOOSE d \in Decimals : d.text = text).value
Entries == {<<d.text, <<"0", ".", "2", "5">>>> : d \in Decimals} \cup {<<NoDecimal, <<"1">>>>}
Exchanges == {"OKX"}
Symbols == {"BTC-USDT-SWAP", "ETH-USDT-SWAP"}
Timestamps == {<<"2025-05-04T10:39:13", "Z">>, <<"2025-05-04T10:39:13", "+00:00">>}

CacheSize == 2
CacheKeys == {"k1", "k2", "k3", "k4"}
CacheValues == {"v1"}
MaxCacheCalls == 4

\* the recordings made into one latency buffer
MaxRecordings == 1002

\* the prices handed to the volatility calculator, in whole units, and how many:
\* one more than the shortest window, so that its first return is taken
VolatilityPrices == {0, 1, 2}
MaxPrices == 11

\* the worker threads that share one cache, and the keys they use
Workers == {"w1", "w2"}
WorkerKeys == {"k1", "k2", "k3"}

\* the producer of market data and the callers of the engine
Threads == {"feed", "c1", "c2"}
Feeder == {"feed"}
Callers == {"c1", "c2"}
Caller == {"c1"}

VARIABLES
    latest_orderbook,        \* TradeSimulator.latest_orderbook
    latest_metrics,          \* TradeSimulator.latest_metrics
    impact_model,            \* MarketImpactModel: model_type, market_estimates
    price_impact_history,    \* SlippageModel: price_impact_history with features_history
    maker_taker_history,     \* MakerTakerEstimator.history
    volatility_calculator,   \* VolatilityCalculator
    processing_times,        \* TradeSimulator.processing_times
    measurements,            \* latency_tracker.measurements
    batch_queue,             \* TradeSimulator.batch_queue
    batch_results,           \* TradeSimulator.batch_results
    running,                 \* TradeSimulator.running
    batch_running,           \* TradeSimulator.batch_running
    executor_shutdown,       \* whether TradeSimulator.executor was shut down
    batch_thread,            \* where the _batch_processor thread stands
    pc,                      \* where each thread stands in the method it called
    frame,                   \* the locals of the method each thread is in
    n_updates,               \* update_market_data calls begun
    n_calls,                 \* calls of the other methods begun
    seen,                    \* simulate_trade outcomes since the last update began
    lru_cache,               \* an LRUCache
    clock,                   \* the last value time.time() returned to the cache
    lru_log,                 \* the calls made on the cache since it was constructed
    json_message,            \* the order book snapshot of the feed, as json.loads returns it
    orderbook_built,         \* how OrderBook.from_json ended on that snapshot
    worker_pc,               \* where each worker stands in the cache method it called
    worker_frame,            \* the locals of the cache method each worker is in
    completed,               \* the cache calls that ended, counted by method and ending
    price_call,              \* the last direct call of add_price: calculator before, price, ending
    seconds,                 \* int(time.time()): the whole seconds passed since construction
    n_recorded               \* the recordings made into the latency buffer under study

market == <<latest_orderbook, latest_metrics>>
models == <<impact_model, price_impact_history, maker_taker_history, volatility_calculator>>
tracking == <<processing_times, measurements>>
batch == <<batch_queue, batch_results, running, batch_running, executor_shutdown, batch_thread>>
counters == <<n_updates, n_calls>>
engine == <<market, models, tracking, batch, pc, frame, counters, seen>>
workers == <<worker_pc, worker_frame, completed>>
caching == <<lru_cache, clock, lru_log, workers>>

\* the locals of a cache method that has not set any
EmptyWorkerFrame == [op |-> "none", key |-> "", value |-> "", loaded |-> 0, oldest_key |-> "", ret |-> None]
snapshots == <<json_message, orderbook_built>>
probes == <<price_call, seconds, n_recorded>>
library == <<caching, snapshots, probes>>
vars == <<engine, library>>

\* the locals of a method that has not set any
EmptyFrame ==
    [op |-> "none", params |-> None, orderbook |-> None, metrics |-> None,
     observed |-> {},           \* the timestamps of the market data objects read
     updates_at_call |-> 0,     \* the updates begun when the method was called
     impact_kind |-> "",        \* the kind calculate_impact dispatched on
     after_shutdown |-> FALSE,  \* whether shutdown had returned when the method was called
     batch_in_progress |-> FALSE,  \* whether a batch was in progress at the call
     futures |-> <<>>,          \* start_batch_simulation: the variations submitted
     at_call |-> None,          \* simulate_trade: the engine's models and history at the call
     batch_id |-> NoneF,        \* start_batch_simulation: the id the batch got
     symbol |-> "", order_type |-> "", side |-> "", fee_tier |-> "",
     impact_model_type |-> "", simulation_mode |-> "",
     quantity |-> NoneF, mid_price |-> NoneF, order_value |-> NoneF, volatility |-> NoneF,
     slippage_pct |-> NoneF, slippage_cost |-> NoneF, impact_results |-> None,
     ret |-> None]

\* how a call ends: a returned value or a raised exception
Returned(value) == [kind |-> "return", value |-> value]
Raised(exception) == [kind |-> "raise", value |-> exception]

\* TradeSimulator.__init__
Init ==
    /\ latest_orderbook = None
    /\ latest_metrics = None
    /\ impact_model = NewMarketImpactModel
    /\ price_impact_history = <<>>
    /\ maker_taker_history = <<>>
    /\ volatility_calculator = NewVolatilityCalculator
    /\ processing_times = <<>>
    /\ measurements = [o \in Operations |-> <<>>]
    /\ batch_queue = <<>>
    /\ batch_results = <<>>
    /\ running = TRUE
    /\ batch_running = FALSE
    /\ executor_shutdown = FALSE
    /\ batch_thread = "running"
    /\ pc = [t \in Threads |-> "idle"]
    /\ frame = [t \in Threads |-> EmptyFrame]
    /\ n_updates = 0
    /\ n_calls = 0
    /\ seen = {}
    /\ lru_cache = LRUCache(CacheSize)
    /\ clock = 0
    /\ lru_log = <<>>
    /\ worker_pc = [w \in Workers |-> "idle"]
    /\ worker_frame = [w \in Workers |-> EmptyWorkerFrame]
    /\ completed = [get |-> 0, set |-> 0, raised |-> 0]
    /\ json_message = None
    /\ orderbook_built = None
    /\ price_call = None
    /\ seconds = 0
    /\ n_recorded = 0

\* a thread moves on to the step at label with its locals as given
Goto(t, label, locals) ==
    /\ pc' = [pc EXCEPT ![t] = label]
    /\ frame' = [frame EXCEPT ![t] = locals]

\* a thread's call ends
Finish(t, outcome) == Goto(t, "ret", [frame[t] EXCEPT !.ret = outcome])

\* ------------------------------------------------------ update_market_data

\* self.latest_orderbook = orderbook
update_market_data_orderbook(t, levels) ==
    /\ pc[t] = "idle"
    /\ LET orderbook == OrderBook(levels, n_updates + 1)
       IN  /\ latest_orderbook' = orderbook
           /\ Goto(t, "update_metrics",
                   [EmptyFrame EXCEPT !.op = "update_market_data",
                                      !.orderbook = orderbook,
                                      !.metrics = process_orderbook(orderbook)])
    /\ n_updates' = n_updates + 1
    /\ seen' = {}
    /\ UNCHANGED <<latest_metrics, models, tracking, batch, n_calls>>

\* self.latest_metrics = metrics
update_market_data_metrics(t) ==
    /\ pc[t] = "update_metrics"
    /\ latest_metrics' = frame[t].metrics
    /\ Goto(t, "update_models", frame[t])
    /\ UNCHANGED <<latest_orderbook, models, tracking, batch, counters, seen>>

\* VolatilityCalculator.add_price leaves step.vc, and update_market_data returns
\* unless it raised
PriceAdded(t, step) ==
    /\ volatility_calculator' = step.vc
    /\ Finish(t, IF step.raised THEN Raised("ValueError") ELSE Returned(None))

\* SlippageModel.update appends entry and the price goes to the volatility
\* calculator, unless computing the entry raised
SlippageUpdated(t, entry) ==
    IF slippage_update_raised(entry)
    THEN /\ Finish(t, Raised("ZeroDivisionError"))
         /\ UNCHANGED <<price_impact_history, volatility_calculator>>
    ELSE /\ price_impact_history' = AppendCapped(price_impact_history, entry, history_size)
         /\ PriceAdded(t, add_price(volatility_calculator, frame[t].orderbook.timestamp,
                                    mid_price(frame[t].orderbook)))

\* self.slippage_model.update(orderbook, 1.0) and
\* self.volatility_calculator.add_price(orderbook.timestamp, orderbook.mid_price())
update_market_data_models(t) ==
    /\ pc[t] = "update_models"
    /\ SlippageUpdated(t, slippage_update_entry(frame[t].orderbook, One))
    /\ UNCHANGED <<market, impact_model, maker_taker_history, tracking, batch, counters,
                   seen>>

\* ---------------------------------------------------------- simulate_trade

NoMarketData == "No market data available for simulation"
InvalidQuantity == "Invalid quantity"

\* the dict returned when a simulation is refused
ErrorResult(message) == [error |-> message]
IsErrorResult(value) == "error" \in DOMAIN value

processing_times_max == 100
maker_taker_history_max == 100

\* the market data objects a call has read, by the timestamp of their update
Observe(locals, object) ==
    IF object = None THEN locals
    ELSE [locals EXCEPT !.observed = @ \cup {object.timestamp}]

\* a validation that lets every call through
has_market_data_unchecked(orderbook, metrics) == TRUE

\* the guard "not self.latest_orderbook or not self.latest_metrics", negated
has_market_data(orderbook, metrics) == orderbook # None /\ metrics # None

\* simulate_trade returns value: the decorator records the call's latency on top of
\* the measurements ms the call has made so far
SimReturn(t, locals, value, ms) ==
    /\ Goto(t, "ret", [locals EXCEPT !.ret = Returned(value)])
    /\ \E duration_ms \in Durations :
           measurements' = measure(ms, "trade_simulation", duration_ms)

\* simulate_trade raises: the decorator records nothing
SimRaise(t, locals, exception, ms) ==
    /\ Goto(t, "ret", [locals EXCEPT !.ret = Raised(exception)])
    /\ measurements' = ms

\* the parameters parsed, each unrecognised value replaced by its default
Parsed(locals, symbol) ==
    [locals EXCEPT !.symbol = symbol,
                   !.order_type = parse_order_type(locals.params.order_type),
                   !.side = parse_side(locals.params.side),
                   !.fee_tier = parse_fee_tier(locals.params.fee_tier),
                   !.impact_model_type = parse_impact_model(locals.params.impact_model),
                   !.simulation_mode = parse_simulation_mode(locals.params.simulation_mode)]

\* the validation of the inputs, the read of the symbol, the parsing of the
\* parameters, and self.impact_model.model_type = impact_model_type
Validated(t, locals) ==
    IF ~has_market_data(latest_orderbook, latest_metrics)
    THEN /\ SimReturn(t, locals, ErrorResult(NoMarketData), measurements)
         /\ UNCHANGED impact_model
    ELSE IF latest_orderbook = None
    THEN /\ SimRaise(t, locals, "AttributeError", measurements)
         /\ UNCHANGED impact_model
    ELSE /\ impact_model' =
                [impact_model EXCEPT !.model_type =
                                         parse_impact_model(locals.params.impact_model)]
         /\ Goto(t, "resolve_quantity", Parsed(locals, latest_orderbook.symbol))
         /\ UNCHANGED measurements

\* what the engine holds besides the market data: the selected impact kind, the
\* histories of its models and its own latency history
EngineState ==
    [model_type |-> impact_model.model_type,
     price_impact_history |-> price_impact_history,
     maker_taker_history |-> maker_taker_history,
     processing_times |-> processing_times]

\* the call, up to the selection of the impact model
simulate_trade_validate(t, params) ==
    /\ pc[t] = "idle"
    /\ n_calls' = n_calls + 1
    /\ Validated(t, Observe(Observe([EmptyFrame EXCEPT !.op = "simulate_trade",
                                                        !.params = params,
                                                        !.updates_at_call = n_updates,
                                                        !.at_call = EngineState],
                                    latest_orderbook), latest_metrics))
    /\ UNCHANGED <<market, price_impact_history, maker_taker_history,
                   volatility_calculator, processing_times, batch, n_updates, seen>>

\* the quantity in base currency: converted from the quote quantity when only that
\* is given
resolve_quantity(quantity, quantity_quote, mid) ==
    IF FLe(quantity, Zero) /\ FGt(quantity_quote, Zero)
    THEN FDiv(quantity_quote, mid) ELSE quantity

\* the order value, the volatility (the calculator's unless the request overrides it)
\* and the metrics with that volatility, once the quantity is known
QuantityResolved(t, locals, mid, quantity, volatility) ==
    IF IsExc(quantity)
    THEN SimRaise(t, locals, "ZeroDivisionError", measurements)
    ELSE IF FLe(quantity, Zero)
    THEN SimReturn(t, locals, ErrorResult(InvalidQuantity), measurements)
    ELSE /\ Goto(t, "slippage",
                 [Observe(locals, latest_metrics)
                      EXCEPT !.mid_price = mid,
                             !.quantity = quantity,
                             !.order_value = FMul(quantity, mid),
                             !.volatility = volatility,
                             !.metrics = [latest_metrics EXCEPT !.volatility = volatility]])
         /\ \E duration_ms \in Durations :
                measurements' =
                    IF IsNoneF(locals.params.volatility)
                    THEN measure(measurements, "volatility_calculation", duration_ms)
                    ELSE measurements

MidPriceRead(t, locals, mid) ==
    QuantityResolved(t, locals, mid,
                     resolve_quantity(locals.params.quantity, locals.params.quantity_quote,
                                      mid),
                     IF IsNoneF(locals.params.volatility)
                     THEN get_current_volatility(volatility_calculator)
                     ELSE locals.params.volatility)

\* the mid price, the quantity, the order value, the volatility and the metrics
\* with the volatility overridden
simulate_trade_resolve_quantity(t) ==
    /\ pc[t] = "resolve_quantity"
    /\ MidPriceRead(t, Observe(frame[t], latest_orderbook), mid_price(latest_orderbook))
    /\ UNCHANGED <<market, models, processing_times, batch, counters, seen>>

\* 2. the market impact, by the kind the shared impact model has selected
ImpactCalculated(t, locals, market_estimates, impact_results, measured) ==
    /\ impact_model' = [impact_model EXCEPT !.market_estimates = market_estimates]
    /\ IF ImpactRaised(impact_results)
       THEN SimRaise(t, locals, "ZeroDivisionError", measured)
       ELSE /\ Goto(t, "finish", [locals EXCEPT !.impact_results = impact_results,
                                                !.impact_kind = impact_model.model_type])
            /\ \E duration_ms \in Durations :
                   measurements' = measure(measured, "market_impact_calculation",
                                           duration_ms)

\* 1. the expected slippage, at the 0.9 quantile
SlippagePredicted(t, locals, slippage_pct, duration_ms) ==
    IF IsExc(slippage_pct)
    THEN /\ SimRaise(t, locals, "ZeroDivisionError", measurements)
         /\ UNCHANGED impact_model
    ELSE ImpactCalculated(
             t,
             [locals EXCEPT !.slippage_pct = slippage_pct,
                            !.slippage_cost =
                                FDiv(FMul(locals.order_value, slippage_pct), Hundred)],
             MarketEstimatesOf(extract_market_parameters(impact_model, latest_orderbook,
                                                         locals.metrics)),
             calculate_impact(impact_model, latest_orderbook, locals.metrics,
                              locals.quantity),
             measure_all(measurements,
                         <<"slippage_prediction_linear", "slippage_prediction_quantile">>,
                         duration_ms))

\* 1. - 2. the expected slippage and the market impact
simulate_trade_slippage_impact(t) ==
    /\ pc[t] = "slippage"
    /\ \E duration_ms \in Durations :
           SlippagePredicted(t, Observe(frame[t], latest_orderbook),
                             predict_slippage_quantile(price_impact_history,
                                                       latest_orderbook, frame[t].quantity,
                                                       frame[t].side = "buy", 900),
                             duration_ms)
    /\ UNCHANGED <<market, price_impact_history, maker_taker_history,
                   volatility_calculator, processing_times, batch, counters, seen>>

\* the dict simulate_trade returns
simulation_result(locals, orderbook, maker_taker_results, fee_results, net_cost, net_cost_pct, processing_time_ms, times, advanced) ==
    [symbol |-> locals.symbol,
     order_type |-> locals.order_type,
     side |-> locals.side,
     quantity |-> locals.quantity,
     order_value |-> locals.order_value,
     fee_tier |-> locals.fee_tier,
     impact_model |-> locals.impact_model_type,
     mid_price |-> locals.mid_price,
     spread |-> spread(orderbook),
     spread_bps |-> IF FGt(locals.mid_price, Zero)
                    THEN FMul(FDiv(spread(orderbook), locals.mid_price), Fin(10000 * SCALE))
                    ELSE Zero,
     volatility |-> locals.volatility,
     expected_slippage_pct |-> locals.slippage_pct,
     expected_slippage_cost |-> locals.slippage_cost,
     market_impact |->
         [temporary_impact_pct |-> locals.impact_results.temporary_impact,
          permanent_impact_pct |-> locals.impact_results.permanent_impact,
          total_impact_pct |-> locals.impact_results.total_impact,
          impact_cost |-> locals.impact_results.impact_cost,
          relative_size |-> locals.impact_results.relative_size,
          pct_of_adv |-> locals.impact_results.pct_of_adv],
     fees |->
         [maker_proportion |-> maker_taker_results.maker_proportion,
          taker_proportion |-> FSub(One, maker_taker_results.maker_proportion),
          maker_fee_rate |-> fee_results.maker_fee_rate,
          taker_fee_rate |-> fee_results.taker_fee_rate,
          maker_fee |-> fee_results.maker_fee,
          taker_fee |-> fee_results.taker_fee,
          total_fee |-> fee_results.total_fee,
          effective_fee_rate |-> fee_results.effective_fee_rate],
     net_cost |-> net_cost,
     net_cost_pct |-> net_cost_pct,
     internal_latency_ms |-> Fin(processing_time_ms * SCALE),
     avg_latency_ms |-> IF times # <<>>
                        THEN FDiv(FSum([i \in 1..Len(times) |-> Fin(times[i] * SCALE)]),
                                  FLen(times))
                        ELSE Zero,
     advanced |-> advanced]

\* net_cost_pct
NetCostPct(net_cost, order_value) ==
    IF FGt(order_value, Zero) THEN FMul(FDiv(net_cost, order_value), Hundred) ELSE Zero

\* the entry estimate_proportion appends to its history for a limit order
HistoryEntry(timestamp, is_buy, maker_taker_results) ==
    [timestamp |-> timestamp, is_buy |-> is_buy, is_limit |-> TRUE,
     maker_proportion |-> maker_taker_results.maker_proportion,
     features |-> maker_taker_results.features]

\* result["advanced"]
AdvancedInfo(maker_taker_results) ==
    [maker_taker_features |-> maker_taker_results.features,
     volatility_estimates |-> get_volatility_all(volatility_calculator),
     impact_model_info |-> get_model_info(impact_model)]

\* the processing time is recorded and the result returned
ResultBuilt(t, locals, result, measured, duration_ms) ==
    IF AnyExc(<<result.fees.maker_proportion, result.fees.total_fee, result.net_cost,
                result.net_cost_pct, result.spread_bps>>)
    THEN /\ SimRaise(t, locals, "ZeroDivisionError", measured)
         /\ UNCHANGED processing_times
    ELSE /\ processing_times' =
                AppendCapped(processing_times, duration_ms, processing_times_max)
         /\ SimReturn(t, locals, result,
                      IF locals.simulation_mode = "advanced"
                      THEN measure(measured, "volatility_calculation", duration_ms)
                      ELSE measured)

\* 5. the net cost
FeesCalculated(t, locals, maker_taker_results, fee_results, net_cost, duration_ms) ==
    ResultBuilt(t, locals,
                simulation_result(locals, latest_orderbook, maker_taker_results, fee_results,
                                  net_cost, NetCostPct(net_cost, locals.order_value),
                                  duration_ms,
                                  AppendCapped(processing_times, duration_ms,
                                               processing_times_max),
                                  IF locals.simulation_mode = "advanced"
                                  THEN AdvancedInfo(maker_taker_results) ELSE None),
                measure_all(measurements, <<"maker_taker_estimation", "fee_calculation">>,
                            duration_ms),
                duration_ms)

\* 4. the fees
ProportionEstimated(t, locals, is_buy, is_limit, maker_taker_results, fee_results, duration_ms) ==
    /\ maker_taker_history' =
           IF is_limit
           THEN AppendCapped(maker_taker_history,
                             HistoryEntry(latest_orderbook.timestamp, is_buy,
                                          maker_taker_results),
                             maker_taker_history_max)
           ELSE maker_taker_history
    /\ FeesCalculated(t, locals, maker_taker_results, fee_results,
                      FAdd(FAdd(locals.slippage_cost, locals.impact_results.impact_cost),
                           fee_results.total_fee),
                      duration_ms)

SideAndKind(t, locals, is_buy, is_limit, maker_taker_results, duration_ms) ==
    ProportionEstimated(t, locals, is_buy, is_limit, maker_taker_results,
                        calculate_fees(locals.order_value, locals.fee_tier,
                                       maker_taker_results.maker_proportion),
                        duration_ms)

\* 3. - 5. the maker/taker proportion, the fees and the net cost; the processing
\* time; the result
simulate_trade_finish(t) ==
    /\ pc[t] = "finish"
    /\ \E duration_ms \in Durations :
           SideAndKind(t, Observe(frame[t], latest_orderbook), frame[t].side = "buy",
                       frame[t].order_type \in {"limit", "stop_limit"},
                       estimate_proportion(latest_orderbook, frame[t].metrics,
                                           frame[t].side = "buy",
                                           frame[t].order_type \in {"limit", "stop_limit"}),
                       duration_ms)
    /\ UNCHANGED <<market, impact_model, price_impact_history, volatility_calculator,
                   batch, counters, seen>>

\* ------------------------------------------------------- batch simulation

\* the parameter variations a caller asks for
Variations == {<<[side |-> "buy"], [side |-> "sell"], [quantity |-> Zero]>>}

\* a thread is in start_batch_simulation with a batch id and no result published
BatchInProgress == \E u \in Threads : pc[u] = "batch_pool"

\* f"batch_{int(time.time())}": the id of a batch begun in the given second
BatchId(second) == <<"batch", second>>

\* TradeSimulator.start_batch_simulation: the batch gets its id and is announced;
\* futures = [], results = []
start_batch_simulation(t, base_params, param_variations) ==
    /\ pc[t] = "idle"
    /\ n_calls' = n_calls + 1
    /\ Goto(t, "batch_pool", [EmptyFrame EXCEPT !.op = "start_batch_simulation",
                                               !.batch_id = BatchId(seconds),
                                               !.params = [base_params |-> base_params,
                                                           param_variations |-> param_variations],
                                               !.after_shutdown = executor_shutdown,
                                               !.futures = <<>>])
    /\ UNCHANGED <<market, models, tracking, batch, n_updates, seen>>

\* the same step were a pool built and the batch run to its end: a batch result
\* is put and the batch id returned
start_batch_simulation_pool_published(t) ==
    /\ pc[t] = "batch_pool"
    /\ batch_results' = Append(batch_results, [batch_id |-> "batch", count |-> 0,
                                               results |-> <<>>])
    /\ batch_running' = FALSE
    /\ Finish(t, Returned("batch"))
    /\ UNCHANGED <<market, models, tracking, batch_queue, running, executor_shutdown,
                   batch_thread, counters, seen>>

\* TradeSimulator.start_batch_simulation, with ThreadPoolExecutor(...): its argument
\* self.max_workers is set nowhere, so the call raises before the pool is built, a
\* variation is submitted or a result is put
start_batch_simulation_pool(t) ==
    /\ pc[t] = "batch_pool"
    /\ Finish(t, Raised("AttributeError"))
    /\ UNCHANGED <<market, models, tracking, batch, counters, seen>>

\* TradeSimulator.get_batch_results
get_batch_results(t) ==
    /\ pc[t] = "idle"
    /\ n_calls' = n_calls + 1
    /\ IF batch_results # <<>>
       THEN /\ batch_results' = Tail(batch_results)
            /\ Goto(t, "ret", [EmptyFrame EXCEPT !.op = "get_batch_results",
                                                !.ret = Returned(Head(batch_results))])
       ELSE /\ UNCHANGED batch_results
            /\ Goto(t, "ret", [EmptyFrame EXCEPT !.op = "get_batch_results",
                                                !.ret = Returned(None)])
    /\ UNCHANGED <<market, models, tracking, batch_queue, running, batch_running,
                   executor_shutdown, batch_thread, n_updates, seen>>

\* TradeSimulator.is_batch_running
is_batch_running(t) ==
    /\ pc[t] = "idle"
    /\ n_calls' = n_calls + 1
    /\ Goto(t, "ret", [EmptyFrame EXCEPT !.op = "is_batch_running",
                                        !.batch_in_progress = BatchInProgress,
                                        !.ret = Returned(batch_running)])
    /\ UNCHANGED <<market, models, tracking, batch, n_updates, seen>>

\* TradeSimulator.shutdown: self.running = False
shutdown_running(t) ==
    /\ pc[t] = "idle"
    /\ n_calls' = n_calls + 1
    /\ running' = FALSE
    /\ Goto(t, "shutdown_join", [EmptyFrame EXCEPT !.op = "shutdown"])
    /\ UNCHANGED <<market, models, tracking, batch_queue, batch_results, batch_running,
                   executor_shutdown, batch_thread, n_updates, seen>>

\* TradeSimulator.shutdown: the join returns, by the thread's exit or by the timeout,
\* and the pool is shut down without waiting
shutdown_executor(t) ==
    /\ pc[t] = "shutdown_join"
    /\ executor_shutdown' = TRUE
    /\ Finish(t, Returned(None))
    /\ UNCHANGED <<market, models, tracking, batch_queue, batch_results, running,
                   batch_running, batch_thread, counters, seen>>

\* TradeSimulator._batch_processor, one turn of the loop while self.running: the
\* queue, which nothing ever puts to, is empty, and the thread sleeps 0.1 s
batch_processor_sleep ==
    /\ batch_thread = "running"
    /\ running
    /\ batch_queue = <<>>
    /\ UNCHANGED vars

\* the loop were it while True: the thread stays in it
batch_processor_exit_never ==
    /\ batch_thread = "running"
    /\ ~running
    /\ UNCHANGED vars

\* TradeSimulator._batch_processor: self.running is False, the loop and the thread end
batch_processor_exit ==
    /\ batch_thread = "running"
    /\ ~running
    /\ batch_thread' = "exited"
    /\ UNCHANGED <<market, models, tracking, batch_queue, batch_results, running,
                   batch_running, executor_shutdown, pc, frame, counters, seen>>

\* ------------------------------------------------------------ the program

\* the caller gets the outcome of its call; track keeps the outcome of a
\* simulate_trade call for comparison with later ones
Return(t, track) ==
    /\ pc[t] = "ret"
    /\ Goto(t, "idle", EmptyFrame)
    /\ seen' = IF track /\ frame[t].op = "simulate_trade"
               THEN seen \cup {[params |-> frame[t].params, outcome |-> frame[t].ret]}
               ELSE seen
    /\ UNCHANGED <<market, models, tracking, batch, counters>>

\* the threads that may begin a call: all of them while fewer than bound calls
\* were begun, none afterwards
Within(threads, begun, bound) == IF begun < bound THEN threads ELSE {}

\* the steps of the given feeder and caller threads over the given inputs
NextOver(feeders, callers, books, requests, max_calls, track) ==
    \/ \E t \in Within(feeders, n_updates, MaxUpdates), levels \in books :
           update_market_data_orderbook(t, levels) /\ UNCHANGED library
    \/ \E t \in feeders : update_market_data_metrics(t) /\ UNCHANGED library
    \/ \E t \in feeders : update_market_data_models(t) /\ UNCHANGED library
    \/ \E t \in Within(callers, n_calls, max_calls), params \in requests :
           simulate_trade_validate(t, params) /\ UNCHANGED library
    \/ \E t \in callers : simulate_trade_resolve_quantity(t) /\ UNCHANGED library
    \/ \E t \in callers : simulate_trade_slippage_impact(t) /\ UNCHANGED library
    \/ \E t \in callers : simulate_trade_finish(t) /\ UNCHANGED library
    \/ \E t \in Within(callers, n_calls, max_calls), base_params \in requests,
          param_variations \in Variations :
           start_batch_simulation(t, base_params, param_variations) /\ UNCHANGED library
    \/ \E t \in callers : start_batch_simulation_pool(t) /\ UNCHANGED library
    \/ \E t \in Within(callers, n_calls, max_calls) :
           get_batch_results(t) /\ UNCHANGED library
    \/ \E t \in Within(callers, n_calls, max_calls) :
           is_batch_running(t) /\ UNCHANGED library
    \/ \E t \in Within(callers, n_calls, max_calls) :
           shutdown_running(t) /\ UNCHANGED library
    \/ \E t \in callers : shutdown_executor(t) /\ UNCHANGED library
    \/ \E t \in feeders \cup callers : Return(t, track) /\ UNCHANGED library
    \/ batch_processor_sleep
    \/ batch_processor_exit /\ UNCHANGED library

\* one producer of market data and two concurrent callers
Next == NextOver(Feeder, Callers, BooksSmall, RequestsSmall, MaxCalls, FALSE)
Spec == Init /\ [][Next]_vars

\* one thread making every call in turn, over the wider inputs
NextSeq == NextOver(Caller, Caller, BooksWide, RequestsWide, MaxCallsSeq, TRUE)
SpecSeq == Init /\ [][NextSeq]_vars

\* one producer of market data and one caller
NextFirst == NextOver(Feeder, Caller, BooksSmall, RequestsSmall, MaxCalls, FALSE)
SpecFirst == Init /\ [][NextFirst]_vars

\* one thread making every call in turn, over every request and two books
NextEnum == NextOver(Caller, Caller, BooksEnum, RequestsWide, MaxCallsSeq, TRUE)
SpecEnum == Init /\ [][NextEnum]_vars

\* one thread making every call in turn, over the requests of every order type
NextKinds == NextOver(Caller, Caller, BooksWide, RequestsKinds, MaxCallsSeq, TRUE)
SpecKinds == Init /\ [][NextKinds]_vars

\* one producer and one caller over one book and one request, the batch thread
\* being scheduled again and again: its sleep of 0.1 s returns and the test of
\* self.running is made
NextShutdown == NextOver(Feeder, Caller, {BookNormal}, {ReqBase}, MaxCalls, FALSE)
SpecShutdown ==
    /\ Init
    /\ [][NextShutdown]_vars
    /\ WF_vars(batch_processor_exit /\ UNCHANGED library)

\* one thread making every call in turn, over a book of fractional prices
NextFractional ==
    NextOver(Caller, Caller, BooksFractional, RequestsFractional, MaxCallsSeq, TRUE)
SpecFractional == Init /\ [][NextFractional]_vars

\* time.time(): the clock stands or advances between two reads
Now == {clock, clock + 1}

\* a call of LRUCache.set
lru_set(key, value) ==
    /\ Len(lru_log) < MaxCacheCalls
    /\ \E now \in Now :
           /\ clock' = now
           /\ lru_cache' = set(lru_cache, key, value, now)
    /\ lru_log' = Append(lru_log, <<"set", key>>)
    /\ UNCHANGED <<engine, snapshots, probes, workers>>

\* a call of LRUCache.get
lru_get(key) ==
    /\ Len(lru_log) < MaxCacheCalls
    /\ \E now \in Now :
           /\ clock' = IF DictHas(lru_cache.cache, key) THEN now ELSE clock
           /\ lru_cache' = get(lru_cache, key, now)
    /\ lru_log' = Append(lru_log, <<"get", key>>)
    /\ UNCHANGED <<engine, snapshots, probes, workers>>

\* the calls of the cache's methods, in any order
NextCache ==
    \/ \E key \in CacheKeys, value \in CacheValues : lru_set(key, value)
    \/ \E key \in CacheKeys : lru_get(key)
SpecCache == Init /\ [][NextCache]_vars

\* a call of LRUCache.clear
lru_clear ==
    /\ Len(lru_log) < MaxCacheCalls
    /\ lru_cache' = clear(lru_cache)
    /\ lru_log' = Append(lru_log, <<"clear", "">>)
    /\ UNCHANGED <<engine, snapshots, probes, workers, clock>>

\* the calls of the cache's methods, clear among them, in any order
NextCleared ==
    \/ \E key \in CacheKeys, value \in CacheValues : lru_set(key, value)
    \/ \E key \in CacheKeys : lru_get(key)
    \/ lru_clear
SpecCleared == Init /\ [][NextCleared]_vars

\* ------------------------------------------- one cache, several threads

\* a worker moves on to the step at label with its locals as given
WorkerGoto(w, label, locals) ==
    /\ worker_pc' = [worker_pc EXCEPT ![w] = label]
    /\ worker_frame' = [worker_frame EXCEPT ![w] = locals]

\* a worker's call ends
WorkerFinish(w, outcome) == WorkerGoto(w, "ret", [worker_frame[w] EXCEPT !.ret = outcome])

\* LRUCache.get: if key in self.cache
get_lookup(w, key) ==
    /\ worker_pc[w] = "idle"
    /\ Len(lru_log) < MaxCacheCalls
    /\ lru_log' = Append(lru_log, <<"get", key>>)
    /\ WorkerGoto(w, IF DictHas(lru_cache.cache, key) THEN "get_hits_load" ELSE "get_misses_load",
                  [EmptyWorkerFrame EXCEPT !.op = "get", !.key = key])
    /\ UNCHANGED <<engine, snapshots, probes, lru_cache, clock, completed>>

\* LRUCache.get, self.hits += 1: the counter is read
get_hits_load(w) ==
    /\ worker_pc[w] = "get_hits_load"
    /\ WorkerGoto(w, "get_hits_store", [worker_frame[w] EXCEPT !.loaded = lru_cache.hits])
    /\ UNCHANGED <<engine, snapshots, probes, lru_cache, clock, lru_log, completed>>

\* LRUCache.get, self.hits += 1: the sum is written
get_hits_store(w) ==
    /\ worker_pc[w] = "get_hits_store"
    /\ lru_cache' = [lru_cache EXCEPT !.hits = worker_frame[w].loaded + 1]
    /\ WorkerGoto(w, "get_touch", worker_frame[w])
    /\ UNCHANGED <<engine, snapshots, probes, clock, lru_log, completed>>

\* LRUCache.get: self.timestamps[key] = time.time()
get_touch(w) ==
    /\ worker_pc[w] = "get_touch"
    /\ \E now \in {clock, clock + 1} :
           /\ clock' = now
           /\ lru_cache' = [lru_cache EXCEPT !.timestamps = DictSet(@, worker_frame[w].key, now)]
    /\ WorkerGoto(w, "get_value", worker_frame[w])
    /\ UNCHANGED <<engine, snapshots, probes, lru_log, completed>>

\* LRUCache.get: return self.cache[key]
get_value(w) ==
    /\ worker_pc[w] = "get_value"
    /\ WorkerFinish(w, IF DictHas(lru_cache.cache, worker_frame[w].key)
                       THEN [kind |-> "return", value |-> "value"]
                       ELSE [kind |-> "raise", value |-> "KeyError"])
    /\ UNCHANGED <<engine, snapshots, probes, lru_cache, clock, lru_log, completed>>

\* LRUCache.get, self.misses += 1: the counter is read
get_misses_load(w) ==
    /\ worker_pc[w] = "get_misses_load"
    /\ WorkerGoto(w, "get_misses_store", [worker_frame[w] EXCEPT !.loaded = lru_cache.misses])
    /\ UNCHANGED <<engine, snapshots, probes, lru_cache, clock, lru_log, completed>>

\* LRUCache.get, self.misses += 1: the sum is written; return None
get_misses_store(w) ==
    /\ worker_pc[w] = "get_misses_store"
    /\ lru_cache' = [lru_cache EXCEPT !.misses = worker_frame[w].loaded + 1]
    /\ WorkerFinish(w, [kind |-> "return", value |-> None])
    /\ UNCHANGED <<engine, snapshots, probes, clock, lru_log, completed>>

\* LRUCache.set: self.cache[key] = value
set_cache(w, key, value) ==
    /\ worker_pc[w] = "idle"
    /\ Len(lru_log) < MaxCacheCalls
    /\ lru_log' = Append(lru_log, <<"set", key>>)
    /\ lru_cache' = [lru_cache EXCEPT !.cache = DictSet(@, key, value)]
    /\ WorkerGoto(w, "set_timestamp", [EmptyWorkerFrame EXCEPT !.op = "set", !.key = key,
                                                               !.value = value])
    /\ UNCHANGED <<engine, snapshots, probes, clock, completed>>

\* LRUCache.set: self.timestamps[key] = time.time()
set_timestamp(w) ==
    /\ worker_pc[w] = "set_timestamp"
    /\ \E now \in {clock, clock + 1} :
           /\ clock' = now
           /\ lru_cache' = [lru_cache EXCEPT !.timestamps = DictSet(@, worker_frame[w].key, now)]
    /\ WorkerGoto(w, "set_check", worker_frame[w])
    /\ UNCHANGED <<engine, snapshots, probes, lru_log, completed>>

\* LRUCache.set: if len(self.cache) > self.max_size
set_check(w) ==
    /\ worker_pc[w] = "set_check"
    /\ IF Len(lru_cache.cache) > lru_cache.max_size
       THEN WorkerGoto(w, "set_oldest", worker_frame[w])
       ELSE WorkerFinish(w, [kind |-> "return", value |-> None])
    /\ UNCHANGED <<engine, snapshots, probes, lru_cache, clock, lru_log, completed>>

\* LRUCache.set: oldest_key = min(self.timestamps.keys(), ...); min raises on no keys
set_oldest(w) ==
    /\ worker_pc[w] = "set_oldest"
    /\ IF lru_cache.timestamps = <<>>
       THEN WorkerFinish(w, [kind |-> "raise", value |-> "ValueError"])
       ELSE WorkerGoto(w, "set_del_cache",
                       [worker_frame[w] EXCEPT !.oldest_key = oldest_key(lru_cache.timestamps)])
    /\ UNCHANGED <<engine, snapshots, probes, lru_cache, clock, lru_log, completed>>

\* LRUCache.set: del self.cache[oldest_key]
set_del_cache(w) ==
    /\ worker_pc[w] = "set_del_cache"
    /\ IF DictHas(lru_cache.cache, worker_frame[w].oldest_key)
       THEN /\ lru_cache' = [lru_cache EXCEPT !.cache = DictDel(@, worker_frame[w].oldest_key)]
            /\ WorkerGoto(w, "set_del_timestamps", worker_frame[w])
       ELSE /\ UNCHANGED lru_cache
            /\ WorkerFinish(w, [kind |-> "raise", value |-> "KeyError"])
    /\ UNCHANGED <<engine, snapshots, probes, clock, lru_log, completed>>

\* LRUCache.set: del self.timestamps[oldest_key]
set_del_timestamps(w) ==
    /\ worker_pc[w] = "set_del_timestamps"
    /\ IF DictHas(lru_cache.timestamps, worker_frame[w].oldest_key)
       THEN /\ lru_cache' = [lru_cache EXCEPT
                                 !.timestamps = DictDel(@, worker_frame[w].oldest_key)]
            /\ WorkerFinish(w, [kind |-> "return", value |-> None])
       ELSE /\ UNCHANGED lru_cache
            /\ WorkerFinish(w, [kind |-> "raise", value |-> "KeyError"])
    /\ UNCHANGED <<engine, snapshots, probes, clock, lru_log, completed>>

\* the worker gets the outcome of its call
worker_return(w) ==
    /\ worker_pc[w] = "ret"
    /\ completed' = IF worker_frame[w].ret.kind = "raise"
                    THEN [completed EXCEPT !.raised = @ + 1]
                    ELSE [completed EXCEPT ![worker_frame[w].op] = @ + 1]
    /\ WorkerGoto(w, "idle", EmptyWorkerFrame)
    /\ UNCHANGED <<engine, snapshots, probes, lru_cache, clock, lru_log>>

\* the workers' calls on the cache, interleaved statement by statement
NextWorkers ==
    \/ \E w \in Workers, key \in WorkerKeys : get_lookup(w, key)
    \/ \E w \in Workers : get_hits_load(w)
    \/ \E w \in Workers : get_hits_store(w)
    \/ \E w \in Workers : get_touch(w)
    \/ \E w \in Workers : get_value(w)
    \/ \E w \in Workers : get_misses_load(w)
    \/ \E w \in Workers : get_misses_store(w)
    \/ \E w \in Workers, key \in WorkerKeys, value \in CacheValues : set_cache(w, key, value)
    \/ \E w \in Workers : set_timestamp(w)
    \/ \E w \in Workers : set_check(w)
    \/ \E w \in Workers : set_oldest(w)
    \/ \E w \in Workers : set_del_cache(w)
    \/ \E w \in Workers : set_del_timestamps(w)
    \/ \E w \in Workers : worker_return(w)
SpecWorkers == Init /\ [][NextWorkers]_vars

\* --------------------------------------------------- latency histories

\* the duration recorded next: the recordings take 1, 2, 3, ... ms, so that they
\* can be told apart
NextDuration == n_recorded + 1

\* LatencyTracker.measure, on the one operation recorded in this run
latency_tracker_measure(operation) ==
    /\ processing_times = <<>>
    /\ \A o \in Operations \ {operation} : measurements[o] = <<>>
    /\ NextDuration <= MaxRecordings
    /\ measurements' = measure(measurements, operation, NextDuration)
    /\ n_recorded' = NextDuration
    /\ UNCHANGED <<market, models, processing_times, batch, pc, frame, counters, seen,
                   caching, snapshots, price_call, seconds>>

\* TradeSimulator.simulate_trade: the recording of the call's processing time
simulate_trade_record_latency ==
    /\ \A o \in Operations : measurements[o] = <<>>
    /\ NextDuration <= MaxRecordings
    /\ processing_times' = AppendCapped(processing_times, NextDuration,
                                        processing_times_max)
    /\ n_recorded' = NextDuration
    /\ UNCHANGED <<market, models, measurements, batch, pc, frame, counters, seen,
                   caching, snapshots, price_call, seconds>>

\* long runs of recordings into one latency buffer
NextLatency ==
    \/ \E operation \in Operations : latency_tracker_measure(operation)
    \/ simulate_trade_record_latency
SpecLatency == Init /\ [][NextLatency]_vars

\* the feed begins a snapshot of an order book
snapshot_begin(timestamp, exchange, symbol) ==
    /\ json_message = None \/ orderbook_built # None
    /\ json_message' = [timestamp |-> timestamp, exchange |-> exchange, symbol |-> symbol,
                        asks |-> <<>>, bids |-> <<>>]
    /\ orderbook_built' = None
    /\ UNCHANGED <<engine, caching, probes>>

\* the feed adds an ask level to the snapshot
snapshot_ask(entry) ==
    /\ json_message # None
    /\ orderbook_built = None
    /\ Len(json_message.asks) < MaxLevels
    /\ json_message' = [json_message EXCEPT !.asks = Append(@, entry)]
    /\ UNCHANGED <<engine, caching, probes, orderbook_built>>

\* the feed adds a bid level to the snapshot
snapshot_bid(entry) ==
    /\ json_message # None
    /\ orderbook_built = None
    /\ Len(json_message.bids) < MaxLevels
    /\ json_message' = [json_message EXCEPT !.bids = Append(@, entry)]
    /\ UNCHANGED <<engine, caching, probes, orderbook_built>>

\* a call of OrderBook.from_json on the snapshot
from_json_call ==
    /\ json_message # None
    /\ orderbook_built = None
    /\ orderbook_built' = from_json(json_message)
    /\ UNCHANGED <<engine, caching, probes, json_message>>

\* ------------------------------------------------- prices, one at a time

\* a call of VolatilityCalculator.add_price on its own; the timestamp counts the calls
volatility_add_price(step, price) ==
    /\ volatility_calculator' = step.vc
    /\ price_call' = [before |-> volatility_calculator, price |-> price,
                      raised |-> step.raised]
    /\ UNCHANGED <<market, impact_model, price_impact_history, maker_taker_history,
                   tracking, batch, pc, frame, counters, seen, caching, snapshots,
                   seconds, n_recorded>>

\* the prices of a feed, each added to the calculator
NextVolatility ==
    \E k \in VolatilityPrices :
        /\ Len(volatility_calculator.price_history) < MaxPrices
        /\ volatility_add_price(
               add_price(volatility_calculator,
                         Len(volatility_calculator.price_history) + 1, Fin(k * SCALE)),
               Fin(k * SCALE))
SpecVolatility == Init /\ [][NextVolatility]_vars

\* ------------------------------------------------ batches and the clock

\* the seconds the clock may advance
MaxSeconds == 2

\* a second passes on the wall clock
second_passes ==
    /\ seconds < MaxSeconds
    /\ seconds' = seconds + 1
    /\ UNCHANGED <<engine, caching, snapshots, price_call, n_recorded>>

\* two callers starting batches while the clock runs
NextBatches ==
    \/ \E t \in Within(Callers, n_calls, MaxCalls), base_params \in RequestsSmall,
          param_variations \in Variations :
           start_batch_simulation(t, base_params, param_variations) /\ UNCHANGED library
    \/ \E t \in Callers : start_batch_simulation_pool(t) /\ UNCHANGED library
    \/ \E t \in Callers : Return(t, FALSE) /\ UNCHANGED library
    \/ second_passes
SpecBatches == Init /\ [][NextBatches]_vars

\* the snapshots of the feed, each turned into an OrderBook
NextBook ==
    \/ \E timestamp \in Timestamps, exchange \in Exchanges, symbol \in Symbols :
           snapshot_begin(timestamp, exchange, symbol)
    \/ \E entry \in Entries : snapshot_ask(entry)
    \/ \E entry \in Entries : snapshot_bid(entry)
    \/ from_json_call
SpecBook == Init /\ [][NextBook]_vars

\* ------------------------------------------------------------- properties

\* thread t has finished a call of method op and holds its outcome
Ended(t, op) == pc[t] = "ret" /\ frame[t].op = op

\* an outcome that is a returned simulation result, not an error result
IsResult(outcome) == outcome.kind = "return" /\ ~IsErrorResult(outcome.value)

\* C1: every simulate_trade call reads its market data from one update only: the
\* order book and the metrics it observes, at every step, carry one timestamp
C1_OneSnapshot ==
    \A t \in Threads :
        Ended(t, "simulate_trade") => Cardinality(frame[t].observed) <= 1

\* C2: every start_batch_simulation call returns a batch id, and a batch result of
\* that id is published whose count and number of entries equal the number of
\* variations, the i-th entry carrying the i-th variation
C2_BatchPublished ==
    \A t \in Threads :
        Ended(t, "start_batch_simulation") =>
            /\ frame[t].ret.kind = "return"
            /\ \E i \in 1..Len(batch_results) :
                   /\ batch_results[i].batch_id = frame[t].ret.value
                   /\ batch_results[i].count = Len(frame[t].params.param_variations)
                   /\ Len(batch_results[i].results) = batch_results[i].count
                   /\ \A k \in 1..Len(batch_results[i].results) :
                          batch_results[i].results[k].variation =
                              frame[t].params.param_variations[k]

\* C3: a batch with a variation whose simulation fails (here a variation with a
\* zero quantity, or any variation before market data) is still published, with
\* an entry for every variation
C3_BatchSurvivesFailure ==
    \A t \in Threads :
        (/\ Ended(t, "start_batch_simulation")
         /\ \E k \in 1..Len(frame[t].params.param_variations) :
                "quantity" \in DOMAIN frame[t].params.param_variations[k])
        => /\ batch_results # <<>>
           /\ Len(batch_results[Len(batch_results)].results) =
                  Len(frame[t].params.param_variations)

\* C5: a simulate_trade call made before any update_market_data call began returns
\* the error result "No market data available for simulation" and does not raise
C5_NoMarketData ==
    \A t \in Threads :
        (Ended(t, "simulate_trade") /\ frame[t].updates_at_call = 0)
        => /\ frame[t].ret.kind = "return"
           /\ frame[t].ret.value = ErrorResult(NoMarketData)

C5_Witness ==
    \E t \in Threads :
        /\ Ended(t, "simulate_trade")
        /\ frame[t].updates_at_call = 0
        /\ frame[t].ret.kind = "return"
        /\ IsErrorResult(frame[t].ret.value)

\* the mid price is zero or infinite
DegenerateMid(mid) == mid = Zero \/ IsInf(mid)

\* C6: with market data present, a simulate_trade call whose quantity is not
\* positive, and whose quote quantity is not positive either or meets a zero or
\* infinite mid price, returns an error result and does not raise
C6_InvalidQuantity ==
    \A t \in Threads :
        (/\ Ended(t, "simulate_trade")
         /\ has_market_data(latest_orderbook, latest_metrics)
         /\ frame[t].updates_at_call > 0
         /\ FLe(frame[t].params.quantity, Zero)
         /\ \/ FLe(frame[t].params.quantity_quote, Zero)
            \/ DegenerateMid(mid_price(latest_orderbook)))
        => /\ frame[t].ret.kind = "return"
           /\ IsErrorResult(frame[t].ret.value)

\* the request with every unrecognised enumerated value replaced by the default
\* the specification names for it
WithDefaults(params) ==
    [params EXCEPT !.order_type = IF @ \in OrderTypes THEN @ ELSE "market",
                   !.side = IF @ \in TradeSides THEN @ ELSE "buy",
                   !.fee_tier = IF @ \in FeeTiers THEN @ ELSE "TIER1",
                   !.impact_model = IF @ \in ImpactModelTypes THEN @ ELSE "almgren-chriss",
                   !.simulation_mode = IF @ \in SimulationModes THEN @ ELSE "standard"]

\* a result echoes the enumerated values of the request params
Echoes(result, params) ==
    /\ result.order_type = params.order_type
    /\ result.side = params.side
    /\ result.fee_tier = params.fee_tier
    /\ result.impact_model = params.impact_model

\* C7: a simulate_trade call with an unrecognised order_type, side, fee_tier,
\* impact_model or simulation_mode ends as the call with the default in its place
\* ended on the same market data, and its result echoes the default
C7_DefaultOnUnrecognised ==
    \A t \in Threads :
        (Ended(t, "simulate_trade") /\ frame[t].params # WithDefaults(frame[t].params))
        => /\ \A e \in seen :
                  e.params = WithDefaults(frame[t].params) => frame[t].ret = e.outcome
           /\ IsResult(frame[t].ret) =>
                  Echoes(frame[t].ret.value, WithDefaults(frame[t].params))

C7_Witness ==
    \E t \in Threads :
        /\ Ended(t, "simulate_trade")
        /\ frame[t].params # WithDefaults(frame[t].params)
        /\ IsResult(frame[t].ret)
        /\ \E e \in seen : e.params = WithDefaults(frame[t].params) /\ IsResult(e.outcome)

\* C8: no update_market_data call raises, and no simulate_trade call with a
\* positive quantity raises, whatever the order book: empty sides, a zero best
\* price, zero depth
C8_DegenerateBooks ==
    \A t \in Threads :
        /\ Ended(t, "update_market_data") => frame[t].ret.kind = "return"
        /\ (Ended(t, "simulate_trade") /\ FGt(frame[t].params.quantity, Zero))
           => frame[t].ret.kind = "return"

\* the cost fields of an outcome: of a result its costs, of anything else all of it
CostFields(outcome) ==
    IF IsResult(outcome)
    THEN [quantity |-> outcome.value.quantity,
          order_value |-> outcome.value.order_value,
          expected_slippage_pct |-> outcome.value.expected_slippage_pct,
          expected_slippage_cost |-> outcome.value.expected_slippage_cost,
          market_impact |-> outcome.value.market_impact,
          fees |-> outcome.value.fees,
          net_cost |-> outcome.value.net_cost,
          net_cost_pct |-> outcome.value.net_cost_pct]
    ELSE [outcome |-> outcome]

\* C9: a simulate_trade call ends with the cost fields of every earlier call of the
\* same request made since the last update_market_data, whatever was simulated
\* in between
C9_Idempotent ==
    \A t \in Threads :
        Ended(t, "simulate_trade") =>
            \A e \in seen :
                e.params = frame[t].params => CostFields(e.outcome) = CostFields(frame[t].ret)

C9_Witness ==
    \E t \in Threads :
        /\ Ended(t, "simulate_trade")
        /\ IsResult(frame[t].ret)
        /\ \E e \in seen : e.params = frame[t].params /\ IsResult(e.outcome)
        /\ \E e \in seen : e.params.impact_model # frame[t].params.impact_model
                           /\ IsResult(e.outcome)

\* C10: the market impact of every simulate_trade call is computed by the kind its
\* own request names, the kind its result echoes
C10_OwnImpactModel ==
    \A t \in Threads :
        (Ended(t, "simulate_trade") /\ IsResult(frame[t].ret))
        => frame[t].impact_kind = frame[t].ret.value.impact_model

\* the cache was constructed empty and since then max_size + 1 distinct keys were
\* set, and nothing else was called
OneTooMany ==
    /\ Len(lru_log) = lru_cache.max_size + 1
    /\ \A i \in 1..Len(lru_log) : lru_log[i][1] = "set"
    /\ \A i, j \in 1..Len(lru_log) : lru_log[i][2] = lru_log[j][2] => i = j

\* the keys a dict holds
Keys(d) == {d[i][1] : i \in 1..Len(d)}

\* C11: after max_size + 1 distinct keys were set into an empty LRUCache and no
\* other call was made, the cache holds exactly max_size entries, those of every
\* key but the one set first; the clock never runs backwards but may stand still
C11_EvictsFirstInserted ==
    OneTooMany =>
        /\ Len(lru_cache.cache) = lru_cache.max_size
        /\ Keys(lru_cache.cache) = {lru_log[i][2] : i \in 2..Len(lru_log)}
        /\ Keys(lru_cache.timestamps) = Keys(lru_cache.cache)

\* the keys were set while the clock stood still
C11_Witness ==
    /\ OneTooMany
    /\ \E i, j \in 1..Len(lru_cache.timestamps) :
           i # j /\ lru_cache.timestamps[i][2] = lru_cache.timestamps[j][2]


\* C14: is_batch_running returns True exactly when a batch is in progress, that is
\* when some start_batch_simulation call has given its batch an id and has not
\* yet published the result (nor failed)
C14_RunningWhileInProgress ==
    \A t \in Threads :
        Ended(t, "is_batch_running") =>
            /\ frame[t].ret.kind = "return"
            /\ frame[t].ret.value = frame[t].batch_in_progress

\* a step of thread t within a start_batch_simulation call made after shutdown
\* had returned
BatchStepAfterShutdown(t) ==
    /\ pc'[t] # pc[t]
    /\ frame'[t].op = "start_batch_simulation"
    /\ frame'[t].after_shutdown

C17_NonLimitAllTaker ==
    \A t \in Threads :
        (/\ Ended(t, "simulate_trade")
         /\ IsResult(frame[t].ret)
         /\ frame[t].ret.value.order_type \in {"market", "stop"})
        => /\ frame[t].ret.value.fees.maker_proportion = Zero
           /\ frame[t].ret.value.fees.taker_proportion = One
           /\ frame[t].ret.value.fees.maker_fee = Zero


\* a VolatilityCalculator that saw fewer than two prices: no return was computed
\* and no EWMA variance formed
NoHistory(vc) == Len(vc.price_history) < 2 /\ vc.ewma_variance = Zero

\* C18: get_current_volatility returns the default 2.0 on a VolatilityCalculator
\* without history: a simulate_trade call that is given no volatility and reads it
\* from such a calculator reports volatility 2.0
C18_DefaultVolatility ==
    \A t \in Threads :
        (/\ Ended(t, "simulate_trade")
         /\ IsResult(frame[t].ret)
         /\ frame[t].params.volatility = NoneF
         /\ NoHistory(volatility_calculator))
        => /\ get_current_volatility(volatility_calculator) = Lit(2, 1)
           /\ frame[t].ret.value.volatility = Lit(2, 1)


\* every string of every level of the snapshot's side is a decimal
Readable(side) ==
    \A i \in DOMAIN side : \A k \in 1..2 : \E d \in Decimals : d.text = side[i][k]

\* the levels built hold the numbers the snapshot's side names, one level for
\* each entry and in the entries' order
SameLevels(levels, side) ==
    /\ Len(levels) = Len(side)
    /\ \A i \in DOMAIN side :
           /\ Fin(levels[i].price) = ValueOf(side[i][1])
           /\ Fin(levels[i].quantity) = ValueOf(side[i][2])

\* from_json was called and returned a book
Built == orderbook_built # None /\ orderbook_built.kind = "return"

\* C19: from_json returns a book for every snapshot of readable levels; the book
\* has the snapshot's exchange and symbol and, side by side, the snapshot's levels
\* in the snapshot's order; its best_ask and best_bid are the prices of the
\* snapshot's first ask and first bid, its mid_price is half their sum and its
\* spread their difference
C19_FromJson ==
    orderbook_built # None =>
        /\ (Readable(json_message.asks) /\ Readable(json_message.bids)) => Built
        /\ Built =>
               LET ob == orderbook_built.value
               IN  /\ ob.exchange = json_message.exchange
                   /\ ob.symbol = json_message.symbol
                   /\ SameLevels(ob.asks, json_message.asks)
                   /\ SameLevels(ob.bids, json_message.bids)
                   /\ json_message.asks # <<>> =>
                          best_ask(ob) = ValueOf(json_message.asks[1][1])
                   /\ json_message.bids # <<>> =>
                          best_bid(ob) = ValueOf(json_message.bids[1][1])
                   /\ (json_message.asks # <<>> /\ json_message.bids # <<>>) =>
                          LET ask == ValueOf(json_message.asks[1][1])
                              bid == ValueOf(json_message.bids[1][1])
                          IN  /\ IsFin(mid_price(ob)) /\ IsFin(spread(ob))
                              /\ 2 * mid_price(ob)[2] = ask[2] + bid[2]
                              /\ spread(ob)[2] = ask[2] - bid[2]

\* a book was built from a snapshot of two different levels a side
C19_Witness ==
    /\ Built
    /\ Len(json_message.asks) = 2 /\ json_message.asks[1] # json_message.asks[2]
    /\ Len(json_message.bids) = 2 /\ json_message.bids[1] # json_message.bids[2]
    /\ json_message.asks[1] # json_message.bids[1]

\* the prices of a side never fall, or never rise, from one level to the next
Ascending(levels) ==
    \A i, j \in DOMAIN levels : i < j => levels[i].price <= levels[j].price
Descending(levels) ==
    \A i, j \in DOMAIN levels : i < j => levels[i].price >= levels[j].price

\* a book was built whose asks are ascending and whose bids are descending
Sorted == Built /\ Ascending(orderbook_built.value.asks) /\ Descending(orderbook_built.value.bids)

\* the best prices of a sorted book bound the prices of their sides, and are
\* +infinity and 0 on empty sides
BestPrices(ob) ==
    /\ \A i \in DOMAIN ob.asks : FLe(best_ask(ob), Fin(ob.asks[i].price))
    /\ \A i \in DOMAIN ob.bids : FGe(best_bid(ob), Fin(ob.bids[i].price))
    /\ ob.asks = <<>> => best_ask(ob) = PosInf
    /\ ob.bids = <<>> => best_bid(ob) = Zero

\* C20 as stated: on every book with ascending asks and descending bids best_ask
\* is at most every ask price, best_bid is at least every bid price, they are
\* +infinity and 0 on empty sides, and the spread is not negative when neither
\* side is empty
C20_SortedBook ==
    Sorted =>
        LET ob == orderbook_built.value
        IN  /\ BestPrices(ob)
            /\ (ob.asks # <<>> /\ ob.bids # <<>>) => FGe(spread(ob), Zero)

\* C20 amended: the same bounds on the best prices; when neither side is empty
\* the spread is not negative exactly when best_bid is at most best_ask, and is
\* negative on a crossed book
C20_SortedBookUncrossed ==
    Sorted =>
        LET ob == orderbook_built.value
        IN  /\ BestPrices(ob)
            /\ (ob.asks # <<>> /\ ob.bids # <<>>) =>
                   (FGe(spread(ob), Zero) <=> FLe(best_bid(ob), best_ask(ob)))

\* a sorted book of two levels a side, at different prices, that is crossed
C20_Witness ==
    /\ Sorted
    /\ Len(orderbook_built.value.asks) = 2
    /\ Len(orderbook_built.value.bids) = 2
    /\ orderbook_built.value.asks[1].price < orderbook_built.value.asks[2].price
    /\ orderbook_built.value.bids[1].price > orderbook_built.value.bids[2].price
    /\ FGt(best_bid(orderbook_built.value), best_ask(orderbook_built.value))


\* C21: every simulate_trade result, whatever the impact model kind asked for,
\* reports a total market impact that is at least the min_impact floor
C21_ImpactFloor ==
    \A t \in Threads :
        (/\ Ended(t, "simulate_trade")
         /\ IsResult(frame[t].ret)
         /\ FGt(frame[t].ret.value.quantity, Zero))
        => FGe(frame[t].ret.value.market_impact.total_impact_pct, min_impact)


\* the cache was filled with max_size distinct keys, then its oldest key was
\* touched, by a get or by a set, then a key not yet in it was set
TouchedThenOverflow ==
    LET size == lru_cache.max_size
    IN  /\ size >= 2
        /\ Len(lru_log) = size + 2
        /\ \A i \in 1..size : lru_log[i][1] = "set"
        /\ \A i, j \in 1..size : lru_log[i][2] = lru_log[j][2] => i = j
        /\ lru_log[size + 1][2] = lru_log[1][2]
        /\ lru_log[size + 2][1] = "set"
        /\ \A i \in 1..size : lru_log[i][2] # lru_log[size + 2][2]

\* C22: a get hit and an overwriting set make their key the most recently
\* touched: when the oldest key of a full cache is touched and a new key is set,
\* the touched key stays, the key that was second-oldest is the one evicted, and
\* nothing else is
C22_TouchRefreshes ==
    TouchedThenOverflow =>
        /\ Len(lru_cache.cache) = lru_cache.max_size
        /\ Keys(lru_cache.cache) =
               {lru_log[i][2] : i \in 1..Len(lru_log)} \ {lru_log[2][2]}


\* every worker is between two calls
WorkersIdle == \A w \in Workers : worker_pc[w] = "idle"

\* C23: the get and set calls of several threads on one cache behave as if made
\* one at a time: no call raises, and once every call has returned the hits and
\* the misses add up to the get calls made and the cache holds at most max_size
\* entries
C23_Serialized ==
    /\ completed.raised = 0
    /\ \A w \in Workers : worker_pc[w] = "ret" => worker_frame[w].ret.kind = "return"
    /\ WorkersIdle =>
           /\ lru_cache.hits + lru_cache.misses = completed.get
           /\ Len(lru_cache.cache) <= lru_cache.max_size


\* the list is empty, or it is the one recorded into and holds the most recent of
\* the recordings 1, 2, 3, ... made, in the order they were made, all of them up
\* to cap
RecentInOrder(list, cap) ==
    \/ list = <<>>
    \/ /\ Len(list) = IF n_recorded < cap THEN n_recorded ELSE cap
       /\ \A i \in 1..Len(list) : list[i] = n_recorded - Len(list) + i

\* C24 as stated: the engine's processing-time history and every buffer of the
\* latency tracker hold the most recent 100 recordings at most, in order
C24_BuffersOfHundred ==
    /\ RecentInOrder(processing_times, processing_times_max)
    /\ \A o \in Operations : RecentInOrder(measurements[o], processing_times_max)

\* C24 amended: the engine's processing-time history holds the most recent 100
\* recordings at most and every buffer of the latency tracker the most recent
\* 1000 at most, in order
C24_BuffersCapped ==
    /\ RecentInOrder(processing_times, processing_times_max)
    /\ \A o \in Operations : RecentInOrder(measurements[o], max_measurements)

\* a buffer of the latency tracker has overflowed
C24_Witness ==
    \E o \in Operations :
        /\ Len(measurements[o]) = max_measurements
        /\ measurements[o][1] > 1

\* a book with both sides non-empty, asks ascending and bids descending
NonEmptySorted(ob) ==
    /\ ob.asks # <<>> /\ ob.bids # <<>>
    /\ Ascending(ob.asks) /\ Descending(ob.bids)

\* C25: on a book with non-empty, sorted sides and for a positive quantity the
\* slippage prediction is never negative, whatever the side and the length of the
\* history (with one thread the latest book is the one the call predicted on)
C25_SlippageNotNegative ==
    \A t \in Threads :
        (/\ Ended(t, "simulate_trade")
         /\ IsResult(frame[t].ret)
         /\ NonEmptySorted(latest_orderbook)
         /\ FGt(frame[t].ret.value.quantity, Zero))
        => FGe(frame[t].ret.value.expected_slippage_pct, Zero)

\* the last direct call of add_price was given a price of zero or less
NonPositivePriceAdded == price_call # None /\ FLe(price_call.price, Zero)

\* C26: add_price with a non-positive price does not raise and leaves the
\* calculator as it was: price history, return buffers, EWMA variance, estimates
C26_NonPositivePriceSkipped ==
    NonPositivePriceAdded
    => (~price_call.raised /\ volatility_calculator = price_call.before)

\* thread t has finished a simulate_trade call that returned an error result
EndedInError(t) ==
    /\ Ended(t, "simulate_trade")
    /\ frame[t].ret.kind = "return"
    /\ IsErrorResult(frame[t].ret.value)

\* C27: a simulate_trade call that returns an error result leaves the engine as it
\* was when called: the selected impact kind, the slippage and maker/taker
\* histories and the latency history (one thread, so nothing else has acted)
C27_ErrorLeavesState ==
    \A t \in Threads : EndedInError(t) => EngineState = frame[t].at_call

\* thread t is in, or at the end of, a start_batch_simulation call
BatchStarted(t) == pc[t] # "idle" /\ frame[t].op = "start_batch_simulation"

\* C28: two distinct start_batch_simulation calls never get the same batch id,
\* also when they are made within one second or at the same time
C28_DistinctBatchIds ==
    \A t, u \in Threads :
        (t # u /\ BatchStarted(t) /\ BatchStarted(u))
        => frame[t].batch_id # frame[u].batch_id

\* the value map and the timestamp map hold the same keys, each once, and at
\* most max_size of them
MapsAgree ==
    /\ Keys(lru_cache.cache) = Keys(lru_cache.timestamps)
    /\ Len(lru_cache.cache) = Cardinality(Keys(lru_cache.cache))
    /\ Len(lru_cache.timestamps) = Cardinality(Keys(lru_cache.timestamps))
    /\ Len(lru_cache.cache) <= lru_cache.max_size

\* the call this step makes on the cache
CallMade == lru_log'[Len(lru_log')]

\* a get of a key the cache does not hold changes the miss counter only
MissCountsOnly ==
    (CallMade[1] = "get" /\ ~DictHas(lru_cache.cache, CallMade[2]))
    => lru_cache' = [lru_cache EXCEPT !.misses = @ + 1]

\* clear empties both maps and leaves the counters and the size limit
ClearEmpties ==
    CallMade[1] = "clear"
    => lru_cache' = [lru_cache EXCEPT !.cache = <<>>, !.timestamps = <<>>]

\* C29: after any sequence of get, set and clear calls by one thread the value
\* map and the timestamp map hold the same keys, at most max_size of them; a get
\* miss changes nothing but the miss counter; clear empties both maps and leaves
\* the hit and miss counters as they were
C29_MapsAgree ==
    /\ []MapsAgree
    /\ [][Len(lru_log') > Len(lru_log) => (MissCountsOnly /\ ClearEmpties)]_vars

\* the cache was cleared after a hit and a miss
C29_Witness ==
    /\ lru_log # <<>>
    /\ lru_log[Len(lru_log)][1] = "clear"
    /\ lru_cache.hits > 0
    /\ lru_cache.misses > 0
    /\ lru_cache.cache = <<>>
    /\ lru_cache.timestamps = <<>>

\* C30: once shutdown has set the running flag to false the batch thread
\* eventually leaves its loop and ends
C30_BatchThreadEnds == (~running) ~> (batch_thread = "exited")

\* shutdown has returned and the batch thread has ended
C30_Witness ==
    /\ ~running
    /\ batch_thread = "exited"
    /\ \E t \in Threads : Ended(t, "shutdown")

====
